---- MODULE Spec2Model ----
(***************************************************************************)
(* A model of the data-shaping utilities of react-native-heatmap           *)
(* (src/src/utils/index.ts), of the Heatmap component's layout memos, of   *)
(* the loader, memory and gesture utilities (src/src/utils/                *)
(* virtualization.ts) and of the press handler of AnimatedCell.            *)
(*                                                                         *)
(* Time.  A JavaScript Date is its time value; the model counts it in      *)
(* whole hours since 1970-01-01T00:00Z (the code counts milliseconds).  A  *)
(* Date object is <<t>>, and the invalid Date (time value NaN) is <<>>.    *)
(* The host time zone is a fixed offset of tz hours from UTC (no daylight- *)
(* saving transitions are modelled).  An ISO date string "YYYY-MM-DD" is   *)
(* the record [y, m, d].                                                   *)
(*                                                                         *)
(* Numbers.  normalizedValue is a rational [n, d] with d > 0; rounding is  *)
(* the exact rounding of the real value (no floating-point error).         *)
(*                                                                         *)
(* Colors.  A color string "#rrggbb" is the sequence of its six hex        *)
(* digits, each 0..15; <<>> is a missing color (undefined or "").          *)
(***************************************************************************)
EXTENDS Integers, Sequences, FiniteSets, TLC

VARIABLES
    tz,             \* host time zone: hours east of UTC
    data,           \* observations: sequence of [date, value, metadata]
    startDate,      \* Date
    endDate,        \* Date
    colorScheme,    \* palette name (a string) or inline palette record
    layout,         \* layout selector
    columns,        \* Heatmap prop: explicit grid columns (0 = not given)
    rows,           \* Heatmap prop: explicit grid rows (0 = not given)
    args,           \* arguments of a direct call of a numeric helper
    op,             \* the operation that ran last ("none" before any)
    ret,            \* what it returned, or the error it threw
    lazyLoader,     \* a LazyLoader, its calls under way and its loader callback
    dateNow,        \* Date.now(), in milliseconds
    doubleTapDetector,  \* a DoubleTapDetector and the calls made on it
    animatedCell,   \* an AnimatedCell: its props, detector, timers and events
    timeline,       \* a call of calculateTimelineScrollLayout at its loop
    memoryOptimizer \* a MemoryOptimizer

vars == <<tz, data, startDate, endDate, colorScheme, layout, columns, rows, args, op, ret,
          lazyLoader, dateNow, doubleTapDetector, animatedCell, timeline, memoryOptimizer>>

-----------------------------------------------------------------------------
(* Values of the JavaScript runtime *)

Undefined == "undefined"
NegInfinity == "-Infinity"
NaN == "NaN"

\* Date objects
MkDate(t) == <<t>>
InvalidDate == <<>>
IsValidDate(date) == date # InvalidDate
getTime(date) == date[1]

\* a missing color, and an unset number (undefined or 0, both falsy)
NoColor == <<>>
Unset == 0

Return(v) == [status |-> "return", value |-> v]
Throw(e) == [status |-> "throw", error |-> e]
IsReturn(r) == r.status = "return"
IsThrow(r) == r.status = "throw"

HoursPerDay == 24

Min(a, b) == IF a <= b THEN a ELSE b

\* an array built by map: the elements are computed once
Array(f) == f \o <<>>

\* floor and ceiling of p / q for q > 0
FloorDiv(p, q) == p \div q
CeilDiv(p, q) == -((-p) \div q)

-----------------------------------------------------------------------------
(* The proleptic Gregorian calendar of ECMAScript Date *)

\* days since 1970-01-01 of the civil date y-m-d (m in 1..12)
DaysFromCivil(y, m, d) ==
    LET FromYoe(era, yoe, doy) ==
            era * 146097 + (yoe * 365 + yoe \div 4 - yoe \div 100 + doy) - 719468
        FromEra(yy, era, mp) ==
            FromYoe(era, yy - era * 400, (153 * mp + 2) \div 5 + d - 1)
        FromYear(yy) ==
            FromEra(yy, yy \div 400, IF m > 2 THEN m - 3 ELSE m + 9)
    IN FromYear(IF m <= 2 THEN y - 1 ELSE y)

\* the civil date [y, m, d] of a day number
CivilFromDays(z) ==
    LET FromMonth(y, mm, dd) ==
            [y |-> y + (IF mm <= 2 THEN 1 ELSE 0), m |-> mm, d |-> dd]
        FromMp(era, yoe, doy, mp) ==
            FromMonth(yoe + era * 400, IF mp < 10 THEN mp + 3 ELSE mp - 9,
                      doy - (153 * mp + 2) \div 5 + 1)
        FromDoy(era, yoe, doy) == FromMp(era, yoe, doy, (5 * doy + 2) \div 153)
        FromYoe(era, doe, yoe) ==
            FromDoy(era, yoe, doe - (365 * yoe + yoe \div 4 - yoe \div 100))
        FromDoe(era, doe) ==
            FromYoe(era, doe,
                    (doe - doe \div 1460 + doe \div 36524 - doe \div 146096) \div 365)
        FromEra(zz, era) == FromDoe(era, zz - era * 146097)
    IN FromEra(z + 719468, (z + 719468) \div 146097)

\* weekday of a day number, 0 = Sunday (1970-01-01 was a Thursday)
WeekdayOfDays(z) == (z + 4) % 7

\* the UTC day number and the local day number and hour of a time value
UTCDays(t) == t \div HoursPerDay
LocalDays(t, zone) == (t + zone) \div HoursPerDay
LocalHour(t, zone) == (t + zone) % HoursPerDay

\* new Date(year, monthIndex, day, hour) in local time; monthIndex and day overflow
MakeLocal(y, monthIndex, day, hour, zone) ==
    (DaysFromCivil(y + monthIndex \div 12, (monthIndex % 12) + 1, 1) + day - 1)
        * HoursPerDay + hour - zone

\* Date.prototype getters in local time
getFullYear(t, zone) == CivilFromDays(LocalDays(t, zone)).y
getMonth(t, zone) == CivilFromDays(LocalDays(t, zone)).m - 1
getDate(t, zone) == CivilFromDays(LocalDays(t, zone)).d
getDay(t, zone) == WeekdayOfDays(LocalDays(t, zone))

\* date.setDate(n): the day of the month becomes n in local time, overflowing
\* into the neighbouring months; the local time of day is kept
setDate(date, n, zone) ==
    LET OfCivil(t, civil) ==
            MkDate(MakeLocal(civil.y, civil.m - 1, n, LocalHour(t, zone), zone))
        OfTime(t) == OfCivil(t, CivilFromDays(LocalDays(t, zone)))
    IN IF ~IsValidDate(date) THEN InvalidDate ELSE OfTime(getTime(date))

\* a <= b on Dates: false as soon as one of them is invalid (NaN)
DateLeq(a, b) == IsValidDate(a) /\ IsValidDate(b) /\ getTime(a) <= getTime(b)

-----------------------------------------------------------------------------
(* Date helpers of utils/index.ts *)

\* date.toISOString().split('T')[0]: the UTC calendar date; RangeError on NaN
formatDateISO(date) ==
    IF ~IsValidDate(date) THEN Throw("RangeError")
    ELSE Return(CivilFromDays(UTCDays(getTime(date))))

\* the empty string, and the date-time string "YYYY-MM-DDThh:00:00" (no zone)
EmptyString == [text |-> ""]
DateTimeString(dateString, hour) ==
    [y |-> dateString.y, m |-> dateString.m, d |-> dateString.d, h |-> hour]
IsDateOnly(string) == DOMAIN string = {"y", "m", "d"}

\* new Date(dateString + 'T00:00:00.000Z'): UTC midnight of the date; the
\* invalid Date when dateString is not of the form YYYY-MM-DD
parseISODate(dateString) ==
    IF IsDateOnly(dateString)
    THEN MkDate(DaysFromCivil(dateString.y, dateString.m, dateString.d) * HoursPerDay)
    ELSE InvalidDate

\* new Date(string): a date-only string is UTC midnight, a date-time string
\* without a zone is local time, anything else the invalid Date
NewDate(string) ==
    IF IsDateOnly(string) THEN parseISODate(string)
    ELSE IF string = EmptyString THEN InvalidDate
    ELSE MkDate(MakeLocal(string.y, string.m - 1, string.d, string.h, tz))

getDayOfWeek(date) == getDay(getTime(date), tz)

\* Math.ceil((pastDaysOfYear + firstDayOfYear.getDay() + 1) / 7), where
\* pastDaysOfYear is the (fractional) number of days since local January 1st
getWeekNumber(date) ==
    LET FromFirstDay(firstDayOfYear) ==
            CeilDiv((getTime(date) - firstDayOfYear)
                        + (getDay(firstDayOfYear, tz) + 1) * HoursPerDay,
                    7 * HoursPerDay)
    IN FromFirstDay(MakeLocal(getFullYear(getTime(date), tz), 0, 1, 0, tz))

\* the while loop of generateDateRange, from `current` on
RECURSIVE DateRangeLoop(_, _, _)
DateRangeLoop(current, end, dates) ==
    LET Pushed(formatted) ==
            IF IsThrow(formatted) THEN formatted
            ELSE DateRangeLoop(setDate(current, getDate(getTime(current), tz) + 1, tz),
                               end, Append(dates, formatted.value))
    IN IF DateLeq(current, end) THEN Pushed(formatDateISO(current)) ELSE Return(dates)

\* a faulty variant: a reversed range is walked from its end to its start
generateDateRangeEitherWay(start, end) ==
    IF DateLeq(start, end) THEN DateRangeLoop(start, end, <<>>)
    ELSE DateRangeLoop(end, start, <<>>)

generateDateRange(start, end) == DateRangeLoop(start, end, <<>>)

-----------------------------------------------------------------------------
(* Rational numbers [n, d], d > 0, in lowest terms *)

RECURSIVE GCD(_, _)
GCD(a, b) == IF b = 0 THEN a ELSE GCD(b, a % b)

Abs(a) == IF a < 0 THEN -a ELSE a

Rat(p, q) ==
    LET g == GCD(Abs(p), Abs(q))
        s == IF q < 0 THEN -1 ELSE 1
    IN [n |-> (s * p) \div g, d |-> (s * q) \div g]

RatLeq(a, b) == a.n * b.d <= b.n * a.d
RatZero == Rat(0, 1)
RatOne == Rat(1, 1)
RatMax(a, b) == IF RatLeq(b, a) THEN a ELSE b
RatMin(a, b) == IF RatLeq(a, b) THEN a ELSE b

-----------------------------------------------------------------------------
(* Value normalization and color interpolation *)

\* a faulty variant: the ratio is not clamped to [0, 1]
normalizeValueUnclamped(value, min, max) ==
    IF max = min THEN (IF value > 0 THEN RatOne ELSE RatZero)
    ELSE Rat(value - min, max - min)

normalizeValue(value, min, max) ==
    IF max = min THEN (IF value > 0 THEN RatOne ELSE RatZero)
    ELSE RatMax(RatZero, RatMin(RatOne, Rat(value - min, max - min)))

\* colors[i] with a 0-based index: undefined outside the array
ColorAt(colors, i) == IF i \in 0..(Len(colors) - 1) THEN colors[i + 1] ELSE NoColor

\* a faulty variant: the operands of || swapped
OrElseSwapped(a, b) == IF b = NoColor THEN a ELSE b

\* a || b on color strings: b when a is undefined or the empty string
OrElse(a, b) == IF a = NoColor THEN b ELSE a

\* parseInt(hex.substring(k, k + 2), 16) and its inverse
\* n.toString(16).padStart(2, '0')
ParseHex2(color, k) == 16 * color[k + 1] + color[k + 2]
ToHex2(n) == <<n \div 16, n % 16>>

\* a faulty variant: Math.floor in place of Math.round
FloorLerp(a, b, factor) == (a * factor.d + (b - a) * factor.n) \div factor.d

\* Math.round(a + (b - a) * factor): the nearest integer, halves upwards
RoundLerp(a, b, factor) ==
    LET p == a * factor.d + (b - a) * factor.n
    IN (2 * p + factor.d) \div (2 * factor.d)

FallbackEmptyColor == <<15, 0, 15, 0, 15, 0>>

interpolateColor(color1, color2, factor) ==
    IF color1 = NoColor \/ color2 = NoColor THEN Throw("TypeError")
    ELSE LET r == RoundLerp(ParseHex2(color1, 0), ParseHex2(color2, 0), factor)
             g == RoundLerp(ParseHex2(color1, 2), ParseHex2(color2, 2), factor)
             b == RoundLerp(ParseHex2(color1, 4), ParseHex2(color2, 4), factor)
         IN Return(ToHex2(r) \o ToHex2(g) \o ToHex2(b))

calculateColor(normalizedValue, scheme, isEmpty) ==
    LET colors == scheme.colors
        levels == IF scheme.levels = Unset THEN Len(scheme.colors) ELSE scheme.levels
        Blend(lowerIndex, upperIndex, factor) ==
            IF factor.n = 0 \/ lowerIndex = upperIndex
            THEN Return(ColorAt(colors, lowerIndex))
            ELSE interpolateColor(ColorAt(colors, lowerIndex),
                                  ColorAt(colors, upperIndex), factor)
        Between(scaledNum, lowerIndex) ==
            Blend(lowerIndex, Min(lowerIndex + 1, Len(colors) - 1),
                  Rat(scaledNum - lowerIndex * normalizedValue.d, normalizedValue.d))
        Scaled(scaledNum) == Between(scaledNum, FloorDiv(scaledNum, normalizedValue.d))
    IN IF isEmpty \/ normalizedValue.n = 0
       THEN Return(OrElse(scheme.emptyColor,
                          OrElse(ColorAt(colors, 0), FallbackEmptyColor)))
       ELSE IF RatLeq(RatOne, normalizedValue)
       THEN Return(ColorAt(colors, Len(colors) - 1))
       ELSE Scaled(normalizedValue.n * (levels - 1))

COLOR_SCHEMES ==
  [
    github |->
        [name |-> "github",
         colors |-> <<<<14, 11, 14, 13, 15, 0>>,
                      <<9, 11, 14, 9, 10, 8>>,
                      <<4, 0, 12, 4, 6, 3>>,
                      <<3, 0, 10, 1, 4, 14>>,
                      <<2, 1, 6, 14, 3, 9>>>>,
         levels |-> Unset, interpolation |-> Undefined,
         emptyColor |-> <<14, 11, 14, 13, 15, 0>>],
    githubDark |->
        [name |-> "githubDark",
         colors |-> <<<<1, 6, 1, 11, 2, 2>>,
                      <<0, 14, 4, 4, 2, 9>>,
                      <<0, 0, 6, 13, 3, 2>>,
                      <<2, 6, 10, 6, 4, 1>>,
                      <<3, 9, 13, 3, 5, 3>>>>,
         levels |-> Unset, interpolation |-> Undefined,
         emptyColor |-> <<1, 6, 1, 11, 2, 2>>],
    heat |->
        [name |-> "heat",
         colors |-> <<<<15, 15, 15, 15, 12, 12>>,
                      <<15, 15, 14, 13, 10, 0>>,
                      <<15, 14, 13, 9, 7, 6>>,
                      <<15, 14, 11, 2, 4, 12>>,
                      <<15, 13, 8, 13, 3, 12>>,
                      <<15, 12, 4, 14, 2, 10>>,
                      <<14, 3, 1, 10, 1, 12>>,
                      <<11, 1, 0, 0, 2, 6>>>>,
         levels |-> Unset, interpolation |-> Undefined,
         emptyColor |-> <<15, 0, 15, 0, 15, 0>>],
    cool |->
        [name |-> "cool",
         colors |-> <<<<15, 7, 15, 11, 15, 15>>,
                      <<13, 14, 14, 11, 15, 7>>,
                      <<12, 6, 13, 11, 14, 15>>,
                      <<9, 14, 12, 10, 14, 1>>,
                      <<6, 11, 10, 14, 13, 6>>,
                      <<4, 2, 9, 2, 12, 6>>,
                      <<2, 1, 7, 1, 11, 5>>,
                      <<0, 8, 4, 5, 9, 4>>>>,
         levels |-> Unset, interpolation |-> Undefined,
         emptyColor |-> <<15, 7, 15, 11, 15, 15>>],
    purple |->
        [name |-> "purple",
         colors |-> <<<<15, 12, 15, 11, 15, 13>>,
                      <<14, 15, 14, 13, 15, 5>>,
                      <<13, 10, 13, 10, 14, 11>>,
                      <<11, 12, 11, 13, 13, 12>>,
                      <<9, 14, 9, 10, 12, 8>>,
                      <<8, 0, 7, 13, 11, 10>>,
                      <<6, 10, 5, 1, 10, 3>>,
                      <<4, 10, 1, 4, 8, 6>>>>,
         levels |-> Unset, interpolation |-> Undefined,
         emptyColor |-> <<15, 12, 15, 11, 15, 13>>],
    green |->
        [name |-> "green",
         colors |-> <<<<15, 7, 15, 12, 15, 5>>,
                      <<14, 5, 15, 5, 14, 0>>,
                      <<12, 7, 14, 9, 12, 0>>,
                      <<10, 1, 13, 9, 9, 11>>,
                      <<7, 4, 12, 4, 7, 6>>,
                      <<4, 1, 10, 11, 5, 13>>,
                      <<2, 3, 8, 11, 4, 5>>,
                      <<0, 0, 5, 10, 3, 2>>>>,
         levels |-> Unset, interpolation |-> Undefined,
         emptyColor |-> <<15, 7, 15, 12, 15, 5>>],
    orange |->
        [name |-> "orange",
         colors |-> <<<<15, 15, 15, 5, 14, 11>>,
                      <<15, 14, 14, 6, 12, 14>>,
                      <<15, 13, 13, 0, 10, 2>>,
                      <<15, 13, 10, 14, 6, 11>>,
                      <<15, 13, 8, 13, 3, 12>>,
                      <<15, 1, 6, 9, 1, 3>>,
                      <<13, 9, 4, 8, 0, 1>>,
                      <<8, 12, 2, 13, 0, 4>>>>,
         levels |-> Unset, interpolation |-> Undefined,
         emptyColor |-> <<15, 15, 15, 5, 14, 11>>],
    red |->
        [name |-> "red",
         colors |-> <<<<15, 15, 15, 5, 15, 0>>,
                      <<15, 14, 14, 0, 13, 2>>,
                      <<15, 12, 11, 11, 10, 1>>,
                      <<15, 12, 9, 2, 7, 2>>,
                      <<15, 11, 6, 10, 4, 10>>,
                      <<14, 15, 3, 11, 2, 12>>,
                      <<12, 11, 1, 8, 1, 13>>,
                      <<9, 9, 0, 0, 0, 13>>>>,
         levels |-> Unset, interpolation |-> Undefined,
         emptyColor |-> <<15, 15, 15, 5, 15, 0>>],
    blue |->
        [name |-> "blue",
         colors |-> <<<<15, 7, 15, 11, 15, 15>>,
                      <<13, 14, 14, 11, 15, 7>>,
                      <<12, 6, 13, 11, 14, 15>>,
                      <<9, 14, 12, 10, 14, 1>>,
                      <<6, 11, 10, 14, 13, 6>>,
                      <<4, 2, 9, 2, 12, 6>>,
                      <<2, 1, 7, 1, 11, 5>>,
                      <<0, 8, 4, 5, 9, 4>>>>,
         levels |-> Unset, interpolation |-> Undefined,
         emptyColor |-> <<15, 7, 15, 11, 15, 15>>],
    grayscale |->
        [name |-> "grayscale",
         colors |-> <<<<15, 15, 15, 15, 15, 15>>,
                      <<15, 0, 15, 0, 15, 0>>,
                      <<13, 9, 13, 9, 13, 9>>,
                      <<11, 13, 11, 13, 11, 13>>,
                      <<9, 6, 9, 6, 9, 6>>,
                      <<7, 3, 7, 3, 7, 3>>,
                      <<5, 2, 5, 2, 5, 2>>,
                      <<2, 5, 2, 5, 2, 5>>>>,
         levels |-> Unset, interpolation |-> Undefined,
         emptyColor |-> <<15, 15, 15, 15, 15, 15>>],
    gitlab |->
        [name |-> "gitlab",
         colors |-> <<<<15, 13, 15, 2, 14, 9>>,
                      <<15, 10, 13, 5, 10, 5>>,
                      <<14, 14, 8, 15, 0, 0>>,
                      <<13, 1, 6, 0, 0, 0>>,
                      <<10, 0, 4, 1, 0, 0>>>>,
         levels |-> Unset, interpolation |-> Undefined,
         emptyColor |-> <<15, 13, 15, 2, 14, 9>>],
    bitbucket |->
        [name |-> "bitbucket",
         colors |-> <<<<14, 6, 15, 3, 15, 15>>,
                      <<11, 3, 13, 9, 15, 15>>,
                      <<4, 13, 9, 4, 15, 15>>,
                      <<0, 0, 6, 6, 12, 12>>,
                      <<0, 0, 4, 13, 9, 9>>>>,
         levels |-> Unset, interpolation |-> Undefined,
         emptyColor |-> <<14, 6, 15, 3, 15, 15>>],
    accessible |->
        [name |-> "accessible",
         colors |-> <<<<15, 15, 15, 15, 15, 15>>,
                      <<15, 15, 12, 12, 0, 0>>,
                      <<15, 15, 9, 9, 0, 0>>,
                      <<15, 15, 6, 6, 0, 0>>,
                      <<12, 12, 0, 0, 0, 0>>>>,
         levels |-> Unset, interpolation |-> Undefined,
         emptyColor |-> <<15, 15, 15, 15, 15, 15>>],
    neon |->
        [name |-> "neon",
         colors |-> <<<<0, 10, 0, 10, 0, 10>>,
                      <<1, 10, 1, 10, 2, 14>>,
                      <<1, 6, 2, 1, 3, 14>>,
                      <<0, 15, 3, 4, 6, 0>>,
                      <<5, 3, 3, 4, 8, 3>>>>,
         levels |-> Unset, interpolation |-> Undefined,
         emptyColor |-> <<0, 10, 0, 10, 0, 10>>],
    sunset |->
        [name |-> "sunset",
         colors |-> <<<<15, 15, 14, 10, 10, 7>>,
                      <<15, 13, 12, 11, 6, 14>>,
                      <<14, 1, 7, 0, 5, 5>>,
                      <<13, 6, 3, 0, 3, 1>>,
                      <<10, 2, 9, 11, 15, 14>>>>,
         levels |-> Unset, interpolation |-> Undefined,
         emptyColor |-> <<15, 15, 14, 10, 10, 7>>]
  ]

\* a ColorScheme | string argument: typeof tells the two apart
SchemeName(name) == [typeof |-> "string", name |-> name]
SchemeObject(palette) == [typeof |-> "object", palette |-> palette]

\* names that COLOR_SCHEMES, an object literal, inherits from Object.prototype
\* (some of them): COLOR_SCHEMES[name] is a function or an object there,
\* truthy and no palette
ObjectPrototype == {"constructor", "toString", "valueOf", "hasOwnProperty", "__proto__"}

resolveColorScheme(scheme) ==
    IF scheme.typeof = "string"
    THEN (IF scheme.name \in DOMAIN COLOR_SCHEMES THEN COLOR_SCHEMES[scheme.name]
          ELSE IF scheme.name \in ObjectPrototype THEN [inherited |-> scheme.name]
          ELSE COLOR_SCHEMES.github)
    ELSE scheme.palette

-----------------------------------------------------------------------------
(* processHeatmapData *)

\* Math.min(...values, other) and Math.max(...values, other)
MinOf(values, other) ==
    LET all == {values[i] : i \in 1..Len(values)} \cup {other}
    IN CHOOSE m \in all : \A v \in all : m <= v

MaxOf(values, other) ==
    LET all == {values[i] : i \in 1..Len(values)} \cup {other}
    IN CHOOSE m \in all : \A v \in all : m >= v

\* Math.ceil(Math.sqrt(n))
CeilSqrt(n) == CHOOSE c \in 0..n : c * c >= n /\ (c = 0 \/ (c - 1) * (c - 1) < n)

\* dataMap.has(dateString) and dataMap.get(dateString) after the forEach of
\* dataMap.set(item.date, item): the last item of that date
HasDataPoint(items, dateString) == \E i \in 1..Len(items) : items[i].date = dateString
\* a faulty variant: the first item of that date
DataPointFirst(items, dateString) ==
    items[CHOOSE i \in 1..Len(items) :
              /\ items[i].date = dateString
              /\ \A j \in 1..(i - 1) : items[j].date # dateString]

DataPoint(items, dateString) ==
    LET last == CHOOSE i \in 1..Len(items) :
                    /\ items[i].date = dateString
                    /\ \A j \in (i + 1)..Len(items) : items[j].date # dateString
    IN items[last]

\* a faulty variant: an unspecified layout taken for 'grid'
LayoutOrGrid(l) == IF l = Undefined THEN "grid" ELSE l

\* the default value of the layout parameter
LayoutOrDefault(l) == IF l = Undefined THEN "calendar" ELSE l

\* the cell of dateRange[index + 1]; a thrown error when its color cannot be
\* computed
ProcessDate(items, start, scheme, l, dateRange, minValue, maxValue, index) ==
    LET dateString == dateRange[index + 1]
        isEmpty == ~HasDataPoint(items, dateString)
        Cell(value, metadata, normalizedValue, color, date, gridColumns) ==
            IF IsThrow(color) THEN color
            ELSE Return(
                [date |-> dateString,
                 value |-> value,
                 metadata |-> metadata,
                 x |-> CASE l = "calendar" ->
                              FloorDiv(FloorDiv(getTime(date) - getTime(start),
                                                HoursPerDay), 7)
                         [] l = "grid" -> index % gridColumns
                         [] l = "compact" -> index
                         [] OTHER -> index % gridColumns,
                 y |-> CASE l = "calendar" -> getDayOfWeek(date)
                         [] l = "grid" -> index \div gridColumns
                         [] l = "compact" -> 0
                         [] OTHER -> index \div gridColumns,
                 color |-> color.value,
                 isEmpty |-> isEmpty,
                 normalizedValue |-> normalizedValue,
                 week |-> IF l = "calendar" THEN getWeekNumber(date) ELSE Unset,
                 dayOfWeek |-> IF l = "calendar" THEN getDayOfWeek(date) ELSE Unset])
        Colored(value, metadata, normalizedValue) ==
            Cell(value, metadata, normalizedValue,
                 calculateColor(normalizedValue, scheme, isEmpty),
                 parseISODate(dateString), CeilSqrt(Len(dateRange)))
        Valued(value, metadata) ==
            Colored(value, metadata, normalizeValue(value, minValue, maxValue))
        Point(dataPoint) == Valued(dataPoint.value, dataPoint.metadata)
    IN IF isEmpty THEN Valued(0, Undefined) ELSE Point(DataPoint(items, dateString))

processHeatmapData(items, start, end, schemeArg, layoutArg) ==
    LET Collect(mapped) ==
            IF \E i \in 1..Len(mapped) : IsThrow(mapped[i])
            THEN mapped[CHOOSE i \in 1..Len(mapped) :
                            IsThrow(mapped[i]) /\ \A j \in 1..(i - 1) : ~IsThrow(mapped[j])]
            ELSE Return(Array([i \in 1..Len(mapped) |-> mapped[i].value]))
        Map(l, resolvedColorScheme, dateRange, minValue, maxValue) ==
            Collect(Array([i \in 1..Len(dateRange) |->
                              ProcessDate(items, start, resolvedColorScheme, l, dateRange,
                                          minValue, maxValue, i - 1)]))
        Scale(dateRange, values) ==
            IF IsThrow(dateRange) THEN dateRange
            ELSE Map(LayoutOrDefault(layoutArg), resolveColorScheme(schemeArg),
                     dateRange.value, MinOf(values, 0), MaxOf(values, 0))
    IN Scale(generateDateRange(start, end),
             Array([i \in 1..Len(items) |-> items[i].value]))

-----------------------------------------------------------------------------
(* calculateCalendarLayout *)

MonthShort == <<"Jan", "Feb", "Mar", "Apr", "May", "Jun",
                "Jul", "Aug", "Sep", "Oct", "Nov", "Dec">>

EmptyCellColor == <<15, 0, 15, 0, 15, 0>>

\* processedData.filter(d => d.x === week).find(d => d.y === dayIndex)
HasExistingCell(cells, week, dayIndex) ==
    \E i \in 1..Len(cells) : cells[i].x = week /\ cells[i].y = dayIndex
ExistingCell(cells, week, dayIndex) ==
    cells[CHOOSE i \in 1..Len(cells) :
              /\ cells[i].x = week /\ cells[i].y = dayIndex
              /\ \A j \in 1..(i - 1) : ~(cells[j].x = week /\ cells[j].y = dayIndex)]

\* a faulty variant: the padding cell dated without its day offset
cellDateOfWeekStart(start, week, dayIndex) ==
    setDate(start, getDate(getTime(start), tz) + week * 7, tz)

\* cellDate.setDate(cellDate.getDate() + week * 7 + dayIndex) on a copy of startDate
cellDate(start, week, dayIndex) ==
    setDate(start, getDate(getTime(start), tz) + week * 7 + dayIndex, tz)

\* the cell at dayIndex of the bucket of week: the existing one, or an empty
\* cell dated cellDate
FullWeekCell(cells, start, week, dayIndex) ==
    LET Synthesized(padDate, formatted) ==
            IF IsThrow(formatted) THEN formatted
            ELSE Return([date |-> formatted.value,
                         value |-> 0,
                         metadata |-> Undefined,
                         x |-> week,
                         y |-> dayIndex,
                         color |-> EmptyCellColor,
                         isEmpty |-> TRUE,
                         normalizedValue |-> RatZero,
                         week |-> getWeekNumber(padDate),
                         dayOfWeek |-> dayIndex])
        Dated(padDate) == Synthesized(padDate, formatDateISO(padDate))
    IN IF HasExistingCell(cells, week, dayIndex)
       THEN Return(ExistingCell(cells, week, dayIndex))
       ELSE Dated(cellDate(start, week, dayIndex))

\* the month boundary loop, from `week` on
RECURSIVE MonthBoundaryLoop(_, _, _, _, _, _)
MonthBoundaryLoop(start, maxWeek, week, currentMonth, monthStart, boundaries) ==
    LET Step(weekMonth) ==
            IF weekMonth # currentMonth \/ week = maxWeek
            THEN MonthBoundaryLoop(
                     start, maxWeek, week + 1, weekMonth, week,
                     IF Len(boundaries) > 0 \/ week > 0
                     THEN Append(boundaries, [month |-> MonthShort[currentMonth + 1],
                                              x |-> monthStart,
                                              width |-> week - monthStart])
                     ELSE boundaries)
            ELSE MonthBoundaryLoop(start, maxWeek, week + 1, currentMonth, monthStart,
                                   boundaries)
        WeekStart(weekStart) == Step(getMonth(getTime(weekStart), tz))
    IN IF week > maxWeek THEN boundaries
       ELSE WeekStart(setDate(start, getDate(getTime(start), tz) + week * 7, tz))

calculateCalendarLayout(cells, start) ==
    LET Layout(maxWeek, filled) ==
            IF \E w \in 1..(maxWeek + 1) : \E d \in 1..7 : IsThrow(filled[w][d])
            THEN Throw("RangeError")
            ELSE Return([weeks |-> maxWeek + 1,
                         weekData |-> Array([w \in 1..(maxWeek + 1) |->
                                          Array([d \in 1..7 |-> filled[w][d].value])]),
                         monthBoundaries |->
                             MonthBoundaryLoop(start, maxWeek, 0,
                                               getMonth(getTime(start), tz), 0, <<>>)])
        Weeks(maxWeek) ==
            Layout(maxWeek,
                   Array([w \in 1..(maxWeek + 1) |->
                       Array([d \in 1..7 |-> FullWeekCell(cells, start, w - 1, d - 1)])]))
    IN IF cells = <<>>
       THEN \* Math.max() of nothing is -Infinity: neither loop runs
            Return([weeks |-> NegInfinity, weekData |-> <<>>, monthBoundaries |-> <<>>])
       ELSE Weeks(MaxOf(Array([i \in 1..Len(cells) |-> cells[i].x]), cells[1].x))

-----------------------------------------------------------------------------
(* Dimension calculators *)

\* an optional { columns, rows } argument: <<>> when it is not given
NoGridDimensions == <<>>
GridDimensions(c, r) == <<[columns |-> c, rows |-> r]>>

calculateGridDimensions(dataLength, preferredColumns, preferredRows) ==
    IF preferredColumns # Unset /\ preferredRows # Unset
    THEN [columns |-> preferredColumns, rows |-> preferredRows]
    ELSE IF preferredColumns # Unset
    THEN [columns |-> preferredColumns, rows |-> CeilDiv(dataLength, preferredColumns)]
    ELSE IF preferredRows # Unset
    THEN [columns |-> CeilDiv(dataLength, preferredRows), rows |-> preferredRows]
    ELSE LET c == CeilSqrt(dataLength)
         \* Math.ceil(0 / 0) is NaN
         IN [columns |-> c, rows |-> IF c = 0 THEN NaN ELSE CeilDiv(dataLength, c)]

\* count * (cellSize + cellSpacing) - cellSpacing
Extent(count, cellSize, cellSpacing) == count * (cellSize + cellSpacing) - cellSpacing

calculateHeatmapDimensions(cells, cellSize, cellSpacing, layoutArg, gridDimensions) ==
    LET l == LayoutOrDefault(layoutArg)
        grid == IF gridDimensions # NoGridDimensions THEN gridDimensions[1]
                ELSE calculateGridDimensions(Len(cells), Unset, Unset)
    IN CASE l = "calendar" ->
              IF cells = <<>>
              THEN [width |-> NegInfinity,
                    height |-> Extent(7, cellSize, cellSpacing)]
              ELSE [width |-> Extent(MaxOf(Array([i \in 1..Len(cells) |-> cells[i].x]),
                                           cells[1].x) + 1, cellSize, cellSpacing),
                    height |-> Extent(7, cellSize, cellSpacing)]
         [] l = "compact" ->
              [width |-> Extent(Len(cells), cellSize, cellSpacing), height |-> cellSize]
         [] l = "daily" ->
              [width |-> Extent(24, cellSize, cellSpacing), height |-> cellSize]
         [] l = "weekly" ->
              [width |-> Extent(7, cellSize, cellSpacing), height |-> cellSize]
         [] l = "monthly" ->
              [width |-> Extent(7, cellSize, cellSpacing),
               height |-> Extent(6, cellSize, cellSpacing)]
         [] l = "yearly" ->
              [width |-> Extent(12 * 8, cellSize, cellSpacing),
               height |-> Extent(7, cellSize, cellSpacing)]
         [] l = "customRange" ->
              [width |-> Extent(Len(cells), cellSize, cellSpacing), height |-> cellSize]
         [] l = "timelineScroll" ->
              [width |-> Extent(CeilDiv(Len(cells), 24), cellSize, cellSpacing),
               height |-> Extent(24, cellSize, cellSpacing)]
         [] l = "realTime" ->
              [width |-> Extent(24, cellSize, cellSpacing), height |-> cellSize]
         [] OTHER ->
              IF gridDimensions = NoGridDimensions /\ cells = <<>>
              THEN \* rows is NaN, and so is the height
                   [width |-> Extent(grid.columns, cellSize, cellSpacing), height |-> NaN]
              ELSE [width |-> Extent(grid.columns, cellSize, cellSpacing),
                    height |-> Extent(grid.rows, cellSize, cellSpacing)]

-----------------------------------------------------------------------------
(* The Heatmap component: the memos of one render *)

DefaultCellSize == 12
DefaultCellSpacing == 2

\* the rectangle renderCell draws for a cell
CellRect(cell, cellSize, cellSpacing) ==
    [x |-> cell.x * (cellSize + cellSpacing),
     y |-> cell.y * (cellSize + cellSpacing),
     width |-> cellSize,
     height |-> cellSize]

\* props: data, startDate, endDate, colorScheme, layout, columns, rows; the cell
\* size and spacing are the defaults
HeatmapRender(props) ==
    LET l == LayoutOrDefault(props.layout)
        gridDims == IF props.columns # Unset /\ props.rows # Unset
                    THEN GridDimensions(props.columns, props.rows)
                    ELSE NoGridDimensions
        Drawn(processedData, calendarLayout) ==
            IF calendarLayout # <<>> /\ IsThrow(calendarLayout[1]) THEN calendarLayout[1]
            ELSE Return([processedData |-> processedData,
                         calendarLayout |-> Array([i \in 1..Len(calendarLayout) |->
                                                   calendarLayout[i].value]),
                         dimensions |->
                             calculateHeatmapDimensions(processedData, DefaultCellSize,
                                                        DefaultCellSpacing, l, gridDims),
                         rects |-> Array([i \in 1..Len(processedData) |->
                                       CellRect(processedData[i], DefaultCellSize,
                                                DefaultCellSpacing)])])
        Memos(processedData) ==
            IF IsThrow(processedData) THEN processedData
            ELSE Drawn(processedData.value,
                       IF l = "calendar"
                       THEN <<calculateCalendarLayout(processedData.value, props.startDate)>>
                       ELSE <<>>)
    IN Memos(processHeatmapData(props.data, props.startDate, props.endDate,
                                props.colorScheme, l))

-----------------------------------------------------------------------------
(* Time-based layouts.  Their cells carry the color as the string the code  *)
(* writes ("#f0f0f0", "transparent"): none of them computes a color.        *)

\* the cell a layout makes for a slot without data
SlotCell(date, x, y, color) ==
    [date |-> date, value |-> 0, x |-> x, y |-> y, color |-> color,
     isEmpty |-> TRUE, normalizedValue |-> 0]

\* processedData.find(cell => cell.date === dateStr) || fallback
FindOrElse(processedData, dateStr, fallback) ==
    IF \E i \in 1..Len(processedData) : processedData[i].date = dateStr
    THEN processedData[CHOOSE i \in 1..Len(processedData) :
                           /\ processedData[i].date = dateStr
                           /\ \A j \in 1..(i - 1) : processedData[j].date # dateStr]
    ELSE fallback

\* an invalid targetDate makes year, month, daysInMonth and weeks NaN: the
\* loops do not run
calculateMonthlyLayout(processedData, targetDate) ==
    LET Grid(year, month, daysInMonth, startDayOfWeek, weeks) ==
            LET Slot(week, day, dayNumber) ==
                    IF dayNumber > 0 /\ dayNumber <= daysInMonth
                    THEN FindOrElse(processedData,
                             formatDateISO(MkDate(MakeLocal(year, month, dayNumber, 0, tz))).value,
                             SlotCell(formatDateISO(MkDate(MakeLocal(year, month, dayNumber, 0, tz))).value,
                                      day, week, "#f0f0f0"))
                    ELSE SlotCell(EmptyString, day, week, "transparent")
            IN [daysInMonth |-> daysInMonth,
                monthData |->
                    [week \in 1..weeks |->
                        [day \in 1..7 |->
                            Slot(week - 1, day - 1,
                                 (week - 1) * 7 + (day - 1) - startDayOfWeek + 1)]],
                weekBoundaries |->
                    [index \in 1..weeks |-> [week |-> index, x |-> 0, width |-> 7]]]
        Month(year, month, daysInMonth, startDayOfWeek) ==
            Grid(year, month, daysInMonth, startDayOfWeek,
                 CeilDiv(daysInMonth + startDayOfWeek, 7))
        OfTime(t) ==
            Month(getFullYear(t, tz), getMonth(t, tz),
                  getDate(MakeLocal(getFullYear(t, tz), getMonth(t, tz) + 1, 0, 0, tz), tz),
                  getDay(MakeLocal(getFullYear(t, tz), getMonth(t, tz), 1, 0, tz), tz))
    IN IF IsValidDate(targetDate) THEN OfTime(getTime(targetDate))
       ELSE [daysInMonth |-> NaN, monthData |-> <<>>, weekBoundaries |-> <<>>]

\* the hour labels: the number and what follows it
formatHour12(hour) ==
    IF hour = 0 THEN [number |-> 12, suffix |-> " AM"]
    ELSE IF hour < 12 THEN [number |-> hour, suffix |-> " AM"]
    ELSE IF hour = 12 THEN [number |-> 12, suffix |-> " PM"]
    ELSE [number |-> hour - 12, suffix |-> " PM"]

formatHour24(hour) == [number |-> hour, suffix |-> ":00"]

HoursOfDay == 24

\* formatDateISO(targetDate) throws for an invalid targetDate
calculateDailyLayout(processedData, targetDate, timeFormat) ==
    LET Day(targetDateStr) ==
            LET IsHourData(cell, hour) ==
                    /\ cell.date = targetDateStr
                    /\ IsValidDate(parseISODate(cell.date))
                    /\ LocalHour(getTime(parseISODate(cell.date)), tz) = hour
                HourCell(hour) ==
                    IF \E i \in 1..Len(processedData) : IsHourData(processedData[i], hour)
                    THEN processedData[CHOOSE i \in 1..Len(processedData) :
                             /\ IsHourData(processedData[i], hour)
                             /\ \A j \in 1..(i - 1) : ~IsHourData(processedData[j], hour)]
                    ELSE SlotCell(DateTimeString(targetDateStr, hour), hour, 0, "#f0f0f0")
            IN [hours |-> HoursOfDay,
                hourData |-> [i \in 1..HoursOfDay |-> HourCell(i - 1)],
                timeBoundaries |->
                    [i \in 1..HoursOfDay |->
                        [hour |-> IF timeFormat = "12h" THEN formatHour12(i - 1)
                                  ELSE formatHour24(i - 1),
                         x |-> i - 1, width |-> 1]]]
        Formatted(targetDateStr) ==
            IF IsThrow(targetDateStr) THEN targetDateStr
            ELSE Return(Day(targetDateStr.value))
    IN Formatted(formatDateISO(targetDate))

\* local midnight of the Sunday on or before the date
getStartOfWeek(date) ==
    LET Midnight(start) ==
            IF IsValidDate(start)
            THEN MkDate(LocalDays(getTime(start), tz) * HoursPerDay - tz)
            ELSE InvalidDate
    IN IF IsValidDate(date)
       THEN Midnight(setDate(date, getDate(getTime(date), tz) - getDay(getTime(date), tz), tz))
       ELSE InvalidDate

DayShort == <<"Sun", "Mon", "Tue", "Wed", "Thu", "Fri", "Sat">>

\* toLocaleDateString('en-US', {weekday: 'short'}): the local weekday
getDayName(date) == DayShort[getDay(getTime(date), tz) + 1]

DaysOfWeek == 7

\* formatDateISO(day) throws for an invalid targetDate
calculateWeeklyLayout(processedData, targetDate) ==
    LET Week(startOfWeek) ==
            LET weekDate(i) ==
                    formatDateISO(setDate(startOfWeek,
                                          getDate(getTime(startOfWeek), tz) + i, tz)).value
            IN [days |-> DaysOfWeek,
                dayData |->
                    [index \in 1..DaysOfWeek |->
                        FindOrElse(processedData, weekDate(index - 1),
                                   SlotCell(weekDate(index - 1), index - 1, 0, "#f0f0f0"))],
                dayBoundaries |->
                    [index \in 1..DaysOfWeek |->
                        [day |-> getDayName(parseISODate(weekDate(index - 1))),
                         x |-> index - 1, width |-> 1]]]
    IN IF IsValidDate(targetDate) THEN Return(Week(getStartOfWeek(targetDate)))
       ELSE Throw("RangeError")

\* monthData.flat()
RECURSIVE Flat(_)
Flat(lists) == IF lists = <<>> THEN <<>> ELSE Head(lists) \o Flat(Tail(lists))

MonthsOfYear == 12

\* an invalid targetDate gives twelve invalid month dates: twelve empty lists
calculateYearlyLayout(processedData, targetDate) ==
    LET monthDate(month) ==
            IF IsValidDate(targetDate)
            THEN MkDate(MakeLocal(getFullYear(getTime(targetDate), tz), month, 1, 0, tz))
            ELSE InvalidDate
    IN [months |-> MonthsOfYear,
        yearData |->
            [index \in 1..MonthsOfYear |->
                Flat(calculateMonthlyLayout(processedData, monthDate(index - 1)).monthData)],
        monthBoundaries |->
            [index \in 1..MonthsOfYear |->
                [month |-> IF IsValidDate(monthDate(index - 1))
                           THEN MonthShort[getMonth(getTime(monthDate(index - 1)), tz) + 1]
                           ELSE "Invalid Date",
                 x |-> (index - 1) * 8, width |-> 7]]]

\* (a, b) => new Date(a.date).getTime() - new Date(b.date).getTime(); a NaN
\* result counts as 0
CompareDates(a, b) ==
    IF IsValidDate(NewDate(a.date)) /\ IsValidDate(NewDate(b.date))
    THEN getTime(NewDate(a.date)) - getTime(NewDate(b.date))
    ELSE 0

\* a comparator under which "compares equal" is not transitive is not a
\* consistent comparison function
IsConsistentComparator(cells) ==
    \A i, j, k \in 1..Len(cells) :
        (CompareDates(cells[i], cells[j]) = 0 /\ CompareDates(cells[j], cells[k]) = 0)
            => CompareDates(cells[i], cells[k]) = 0

Reordered(cells, p) == [i \in 1..Len(cells) |-> cells[p[i]]]

\* what [...processedData].sort(compare) can give: the stable sort, or, with
\* a comparator that is not consistent, an order the engine chooses
SortOutcomes(cells) ==
    IF cells = <<>> THEN {<<>>}
    ELSE IF IsConsistentComparator(cells)
    THEN {Reordered(cells, p) : p \in
            {q \in Permutations(1..Len(cells)) :
                \A i, j \in 1..Len(cells) :
                    i < j => \/ CompareDates(cells[q[i]], cells[q[j]]) < 0
                             \/ /\ CompareDates(cells[q[i]], cells[q[j]]) = 0
                                /\ q[i] < q[j]}}
    ELSE {Reordered(cells, p) : p \in Permutations(1..Len(cells))}

ApproximateCellSize == 15

\* sortedData is the outcome of the sort; this is what the call returns when
\* its loop has ended, which takes chunkSize >= 1 or an empty list
calculateTimelineScrollLayout(sortedData, scrollDirection, chunkSize) ==
    LET n == Len(sortedData)
        Label(date) ==
            IF IsValidDate(date)
            THEN [month |-> MonthShort[getMonth(getTime(date), tz) + 1],
                  day |-> getDate(getTime(date), tz)]
            ELSE [month |-> "Invalid Date", day |-> 0]
        Chunks(count) ==
            [totalScrollSize |-> count * chunkSize * ApproximateCellSize,
             timelineData |->
                [k \in 1..count |->
                    SubSeq(sortedData, (k - 1) * chunkSize + 1, Min(k * chunkSize, n))],
             scrollMarkers |->
                [k \in 1..count |->
                    [timestamp |-> sortedData[(k - 1) * chunkSize + 1].date,
                     position |-> (k - 1) * chunkSize,
                     label |-> Label(NewDate(sortedData[(k - 1) * chunkSize + 1].date))]]]
    IN IF n = 0 THEN Chunks(0) ELSE Chunks(CeilDiv(n, chunkSize))

MsPerHour == 3600000

\* a faulty variant: the bounds of the window are left out
IsInsideWindow(date, windowStart, now) ==
    /\ IsValidDate(date)
    /\ getTime(windowStart) < getTime(date)
    /\ getTime(date) < getTime(now)

\* cellDate >= windowStart && cellDate <= now: false for an invalid cellDate
IsInWindow(date, windowStart, now) ==
    DateLeq(windowStart, date) /\ DateLeq(date, now)

\* now is what new Date() gives; updateInterval is in milliseconds
calculateRealTimeLayout(processedData, windowSize, updateInterval, now) ==
    LET windowStart == MkDate(getTime(now) - windowSize)
        InWindow(cell) == IsInWindow(parseISODate(cell.date), windowStart, now)
        Indicators(dataBuffer) ==
            [currentWindow |-> [start |-> windowStart, end |-> now],
             dataBuffer |-> dataBuffer,
             updateQueue |-> <<>>,
             liveIndicators |->
                [index \in 1..Len(dataBuffer) |->
                    [timestamp |-> parseISODate(dataBuffer[index].date),
                     position |-> index - 1,
                     active |-> (getTime(now) - getTime(parseISODate(dataBuffer[index].date)))
                                    * MsPerHour < updateInterval * 2]]]
    IN Indicators(SelectSeq(processedData, InWindow))

-----------------------------------------------------------------------------
(* LazyLoader of utils/virtualization.ts.  The record holds the object's     *)
(* fields (data, chunkSize, loadedChunks), the calls of getRange and        *)
(* preloadAround that are under way, and a log of the loader callback: how  *)
(* often it was called, resolved and rejected for each chunk since the last *)
(* clearCache().  A null item is 0, the item of index i is i + 1; data[k]   *)
(* is the item of index k - 1.                                              *)

NoLazyLoader == [data |-> <<>>]

\* a caller that has no call under way
Idle ==
    [pc |-> "idle", fn |-> "none", i |-> 0, endIndex |-> 0, result |-> <<>>,
     pending |-> {}, stale |-> {}]

\* new LazyLoader(initialData, chunkSize, loader), nothing called yet
NewLazyLoader(initialData, chunkSize, callers) ==
    [data |-> initialData, chunkSize |-> chunkSize, loadedChunks |-> {},
     calls |-> [c \in callers |-> Idle],
     loaderCalls |-> [c \in 0..(Len(initialData) \div chunkSize) |-> 0],
     resolved |-> [c \in 0..(Len(initialData) \div chunkSize) |-> 0],
     rejected |-> [c \in 0..(Len(initialData) \div chunkSize) |-> 0],
     started |-> 0]

\* loadChunk up to its await: this.loader(startIndex, endIndex) is called
LoaderCalled(self, chunks) ==
    [self EXCEPT !.loaderCalls =
        [c \in DOMAIN @ |-> IF c \in chunks THEN @[c] + 1 ELSE @[c]]]

\* a faulty variant: the chunk is marked loaded after a rejection as well
LoaderSettledMarksChunk(self, chunkIndex, ok, isStale) ==
    LET Written(startIndex, endIndex) ==
            [self EXCEPT
                !.data = [k \in 1..Len(@) |->
                             IF k - 1 \in startIndex..endIndex THEN k ELSE @[k]],
                !.loadedChunks = @ \cup {chunkIndex},
                !.resolved[chunkIndex] = IF isStale THEN @ ELSE @ + 1]
    IN IF ok
       THEN Written(chunkIndex * self.chunkSize,
                    Min(chunkIndex * self.chunkSize + self.chunkSize - 1,
                        Len(self.data) - 1))
       ELSE [self EXCEPT !.loadedChunks = @ \cup {chunkIndex},
                         !.rejected[chunkIndex] = IF isStale THEN @ ELSE @ + 1]

\* loadChunk after its await.  Resolved: the items of startIndex .. endIndex
\* are written and the chunk is marked loaded; rejected: a warning, nothing
\* else.  A load that clearCache() has overtaken is left out of the log.
LoaderSettled(self, chunkIndex, ok, isStale) ==
    LET Written(startIndex, endIndex) ==
            [self EXCEPT
                !.data = [k \in 1..Len(@) |->
                             IF k - 1 \in startIndex..endIndex THEN k ELSE @[k]],
                !.loadedChunks = @ \cup {chunkIndex},
                !.resolved[chunkIndex] = IF isStale THEN @ ELSE @ + 1]
    IN IF ok
       THEN Written(chunkIndex * self.chunkSize,
                    Min(chunkIndex * self.chunkSize + self.chunkSize - 1,
                        Len(self.data) - 1))
       ELSE [self EXCEPT !.rejected[chunkIndex] = IF isStale THEN @ ELSE @ + 1]

\* result.push(item) for the items of the indexes from .. to that are not null
PushItems(self, result, from, to) ==
    result \o SelectSeq([k \in 1..(to - from + 1) |-> self.data[from + k]],
                        LAMBDA item : item # 0)

\* the loop of getRange from index i on, up to its next await (the first
\* index whose chunk is not marked loaded) or to its return
RunGetRange(self, caller, i, endIndex, result) ==
    LET Await(j) ==
            [LoaderCalled(self, {j \div self.chunkSize}) EXCEPT
                !.calls[caller] =
                    [pc |-> "loading", fn |-> "getRange", i |-> j, endIndex |-> endIndex,
                     result |-> PushItems(self, result, i, j - 1),
                     pending |-> {j \div self.chunkSize}, stale |-> {}]]
    IN IF \E j \in i..endIndex : j \div self.chunkSize \notin self.loadedChunks
       THEN Await(CHOOSE j \in i..endIndex :
                      /\ j \div self.chunkSize \notin self.loadedChunks
                      /\ \A k \in i..(j - 1) : k \div self.chunkSize \in self.loadedChunks)
       ELSE [self EXCEPT !.calls[caller] =
                [Idle EXCEPT !.fn = "getRange",
                             !.result = PushItems(self, result, i, endIndex)]]

\* preloadAround up to its await: loadChunk is called for every chunk of
\* startChunk .. endChunk, and calls the loader for those not marked loaded
RunPreloadAround(self, caller, centerIndex, radius) ==
    LET Await(chunks) ==
            [LoaderCalled(self, chunks) EXCEPT
                !.calls[caller] =
                    IF chunks = {} THEN [Idle EXCEPT !.fn = "preloadAround"]
                    ELSE [Idle EXCEPT !.pc = "loading", !.fn = "preloadAround",
                                      !.pending = chunks]]
        Around(centerChunk) ==
            Await({c \in (IF centerChunk - radius > 0 THEN centerChunk - radius ELSE 0)
                            ..Min(Len(self.data) \div self.chunkSize, centerChunk + radius) :
                      c \notin self.loadedChunks})
    IN Around(centerIndex \div self.chunkSize)

\* clearCache(): no chunk is marked loaded any more; the log starts again,
\* and the loads under way are those of before
ClearedCache(self) ==
    [self EXCEPT !.loadedChunks = {},
                 !.loaderCalls = [c \in DOMAIN @ |-> 0],
                 !.resolved = [c \in DOMAIN @ |-> 0],
                 !.rejected = [c \in DOMAIN @ |-> 0],
                 !.calls = [c \in DOMAIN @ |->
                               [self.calls[c] EXCEPT !.stale = self.calls[c].pending]]]

-----------------------------------------------------------------------------
(* Gestures of utils/virtualization.ts and the press handler of            *)
(* AnimatedCell.  The clock dateNow is the value of Date.now(); it never   *)
(* runs backwards.                                                         *)

\* an object that was not constructed
Absent == [absent |-> TRUE]

doubleTapDelay == 300

\* what detectDoubleTap does to lastTap at the time nowMs, what it returns and
\* how often it calls the callback; this variant forgets to clear lastTap
detectDoubleTapKeepsTap(lastTap, nowMs) ==
    LET timeDiff == nowMs - lastTap
    IN  IF timeDiff < doubleTapDelay
        THEN [lastTap |-> nowMs, ret |-> TRUE, callbacks |-> 1]
        ELSE [lastTap |-> nowMs, ret |-> FALSE, callbacks |-> 0]

detectDoubleTap(lastTap, nowMs) ==
    LET timeDiff == nowMs - lastTap
    IN  IF timeDiff < doubleTapDelay
        THEN [lastTap |-> 0, ret |-> TRUE, callbacks |-> 1]
        ELSE [lastTap |-> nowMs, ret |-> FALSE, callbacks |-> 0]

\* new DoubleTapDetector(), with the log of the calls of detectDoubleTap:
\* when each was made, what it returned, how often it called its callback,
\* and whether it was the first call since construction or reset()
NewDoubleTapDetector == [lastTap |-> 0, isReset |-> TRUE, calls |-> <<>>]

\* an AnimatedCell as mounted: whether the onPress and onDoublePress props are
\* given, the lastTap of its detector, the setTimeout callbacks not yet run,
\* the presses so far (isDoubleTap is what the detector said) and the events
\* delivered to the props.  hapticFeedback is off.
NewAnimatedCell(onPress, onDoublePress) ==
    [onPress |-> onPress, onDoublePress |-> onDoublePress, lastTap |-> 0,
     timers |-> <<>>, presses |-> <<>>, events |-> <<>>]

pressDelay == 150

\* handlePress at the time nowMs
handlePress(self, nowMs) ==
    LET press == Len(self.presses) + 1
        tap == IF self.onDoublePress THEN detectDoubleTap(self.lastTap, nowMs)
               ELSE [lastTap |-> self.lastTap, ret |-> FALSE, callbacks |-> 0]
        Pressed(cell) ==
            [cell EXCEPT !.lastTap = tap.lastTap,
                         !.presses = Append(@, [time |-> nowMs, isDoubleTap |-> tap.ret])]
    IN  IF tap.ret
        THEN Pressed([self EXCEPT
                 !.events = Append(@, [event |-> "onDoublePress", press |-> press])])
        ELSE Pressed([self EXCEPT
                 !.timers = Append(@, [due |-> nowMs + (IF self.onDoublePress
                                                        THEN pressDelay ELSE 0),
                                       press |-> press])])

\* the callback of the oldest setTimeout runs: onPress?.(data, index)
timerCallback(self) ==
    [self EXCEPT !.timers = Tail(@),
                 !.events = IF self.onPress
                            THEN Append(@, [event |-> "onPress",
                                            press |-> Head(self.timers).press])
                            ELSE @]

\* products and differences of rationals
RatTimes(a, b) == Rat(a.n * b.n, a.d * b.d)
RatMinus(a, b) == Rat(a.n * b.d - b.n * a.d, a.d * b.d)

\* a || b on numbers: b when a is 0 (or missing)
NumberOrElse(a, b) == IF a.n = 0 THEN b ELSE a

\* sizes are { width, height } in whole pixels, zoom levels are rationals
calculateZoomBounds(contentSize, containerSize, config) ==
    LET scaleX == Rat(containerSize.width, contentSize.width)
        scaleY == Rat(containerSize.height, contentSize.height)
        minFitScale == RatMin(scaleX, scaleY)
    IN  [minZoom |-> RatMax(NumberOrElse(config.minZoom, Rat(1, 2)),
                            RatTimes(minFitScale, Rat(1, 2))),
         maxZoom |-> NumberOrElse(config.maxZoom, Rat(3, 1))]

calculatePanBounds(contentSize, containerSize, scale) ==
    LET scaledWidth == RatTimes(Rat(contentSize.width, 1), scale)
        scaledHeight == RatTimes(Rat(contentSize.height, 1), scale)
        slackX == RatMinus(Rat(containerSize.width, 1), scaledWidth)
        slackY == RatMinus(Rat(containerSize.height, 1), scaledHeight)
    IN  [minX |-> RatMin(RatZero, slackX), maxX |-> RatMax(RatZero, slackX),
         minY |-> RatMin(RatZero, slackY), maxY |-> RatMax(RatZero, slackY)]

clampValue(value, min, max) == RatMax(min, RatMin(max, value))

calculateGestureTransform(translation, scale, bounds) ==
    [translateX |-> clampValue(translation.x, bounds.minX, bounds.maxX),
     translateY |-> clampValue(translation.y, bounds.minY, bounds.maxY),
     scale |-> clampValue(scale, bounds.minZoom, bounds.maxZoom)]

-----------------------------------------------------------------------------
(* MemoryOptimizer of utils/virtualization.ts.  The Map memoryUsage is the   *)
(* sequence of its entries in insertion order; a component id is a number.  *)

DefaultMaxMemoryUsage == 50 * 1024 * 1024

NewMemoryOptimizer == [memoryUsage |-> <<>>, maxMemoryUsage |-> DefaultMaxMemoryUsage]

RECURSIVE SumBytes(_)
SumBytes(entries) ==
    IF entries = <<>> THEN 0 ELSE Head(entries).bytes + SumBytes(Tail(entries))

getTotalMemoryUsage(self) == SumBytes(self.memoryUsage)

\* Map.set: a new key is appended, a known key keeps its place
MapSet(entries, componentId, bytes) ==
    IF \E k \in DOMAIN entries : entries[k].componentId = componentId
    THEN [k \in DOMAIN entries |->
             IF entries[k].componentId = componentId
             THEN [componentId |-> componentId, bytes |-> bytes] ELSE entries[k]]
    ELSE Append(entries, [componentId |-> componentId, bytes |-> bytes])

\* Map.delete
MapDelete(entries, componentId) ==
    LET Other(entry) == entry.componentId # componentId
    IN  SelectSeq(entries, Other)

\* the first Math.ceil(entries.length * 0.3) entries are deleted
triggerGarbageCollection(self) ==
    LET toRemove == CeilDiv(Len(self.memoryUsage) * 3, 10)
    IN  [self EXCEPT !.memoryUsage = SubSeq(@, toRemove + 1, Len(@))]

trackMemoryUsage(self, componentId, bytes) ==
    LET Tracked(tracked) ==
            IF getTotalMemoryUsage(tracked) > tracked.maxMemoryUsage
            THEN triggerGarbageCollection(tracked)
            ELSE tracked
    IN  Tracked([self EXCEPT !.memoryUsage = MapSet(@, componentId, bytes)])

clearMemoryTracking(self, componentId) ==
    [self EXCEPT !.memoryUsage = MapDelete(@, componentId)]

setMaxMemoryUsage(self, bytes) == [self EXCEPT !.maxMemoryUsage = bytes]

-----------------------------------------------------------------------------
(* Bounds of the model *)

MaxStartShift == 2      \* start days: FirstDay .. FirstDay + MaxStartShift
MaxSpan == 15           \* longest range of the calendar specification, in days
MaxFillSpan == 3        \* longest range of the dense-fill specification
MaxRenderSpan == 5      \* longest range of the render specification
LateHour == 9           \* times of day of a range bound: 0 and LateHour
WestHours == 5          \* time zones: UTC - WestHours, UTC, UTC + EastHours
EastHours == 3
MaxObsValue == 1        \* observation values: -1 .. MaxObsValue
MaxGridProp == 3        \* columns and rows props: not given, or 1 .. MaxGridProp
MaxValue == 2           \* arguments of normalizeValue: -MaxValue .. MaxValue
MaxDenominator == 4     \* normalized values n / d with d in 1 .. MaxDenominator
MaxLevels == 5          \* the levels field of a palette: unset, or 1 .. MaxLevels
MaxCells == 3           \* longest cell list of the timeline and real-time layouts
MaxSlotCells == 2       \* longest cell list of the daily .. yearly layouts
MaxChunkSize == 3       \* chunkSize: 1 .. MaxChunkSize
MaxLateness == 2        \* the clock: 0 .. MaxLateness hours after a cell's time
MaxChunks == 2          \* the LazyLoader's data: MaxChunks chunks of LoaderChunkSize items
LoaderChunkSize == 2
MaxCallers == 2         \* calls of getRange and preloadAround under way at a time
MaxStarts == 3          \* calls of getRange, preloadAround and clearCache in a behaviour
MaxRadius == 1          \* the radius of preloadAround: 0 .. MaxRadius
TickMs == 50            \* the clock advances in steps of TickMs milliseconds
MaxTicks == 10          \* ... at most MaxTicks times
MaxTaps == 4            \* calls of detectDoubleTap on a detector
MaxPresses == 3         \* presses of an AnimatedCell
MaxComponents == 3      \* component ids: 1 .. MaxComponents
MaxBytes == 3           \* tracked sizes and limits: 0 .. MaxBytes bytes
MaxSize == 8            \* widths and heights: 1 and MaxSize pixels
MaxTranslation == 10    \* translations: -MaxTranslation, 0 and MaxTranslation

\* iterations of the chunk loop of calculateTimelineScrollLayout that are
\* counted, more than a loop that ends needs for MaxCells cells: from there
\* on chunks stands for "MaxLoopSteps or more" and i for "-MaxLoopSteps or
\* less", which the loop condition cannot tell from the exact values
MaxLoopSteps == MaxCells + 1

\* Saturday 2024-02-24: the ranges cross the end of a leap-year February
FirstDay == DaysFromCivil(2024, 2, 24)

TimeZones == {-WestHours, 0, EastHours}
TimesOfDay == {0, LateHour}

At(day, hour) == MkDate(day * HoursPerDay + hour)

StartDates(shift) ==
    {At(FirstDay + k, h) : k \in 0..shift, h \in TimesOfDay} \cup {InvalidDate}

\* end dates from one day before the start day (a reversed range) on
EndDates(start, span) ==
    LET day == IF IsValidDate(start) THEN UTCDays(getTime(start)) ELSE FirstDay
    IN {At(day + k, h) : k \in (-1)..span, h \in TimesOfDay} \cup {InvalidDate}

Observation(day, value) ==
    [date |-> CivilFromDays(day), value |-> value,
     metadata |-> IF value > 0 THEN "plus" ELSE "other"]

\* observations dated one of the first two days of the calendar window
Observations ==
    {Observation(FirstDay + k, v) : k \in {0, 1}, v \in (-1)..MaxObsValue}

ObservationLists ==
    {<<>>} \cup {<<a>> : a \in Observations}
           \cup {<<a, b>> : a \in Observations, b \in Observations}

TwoColorPalette ==
    [name |-> "test",
     colors |-> <<<<15, 15, 15, 15, 15, 15>>, <<0, 0, 0, 0, 0, 0>>>>,
     levels |-> Unset, interpolation |-> Undefined,
     emptyColor |-> <<15, 0, 15, 0, 15, 0>>]

Layouts == {"calendar", "grid", "compact", "custom", Undefined}

\* the values of the interpolation field (types: ColorScheme)
Interpolations == {Undefined, "linear", "exponential", "logarithmic"}

\* a palette with each levels and interpolation field, with and without emptyColor
PaletteVariants(palette) ==
    {[palette EXCEPT !.levels = lv, !.interpolation = ip, !.emptyColor = ec] :
        lv \in 0..MaxLevels, ip \in Interpolations, ec \in {NoColor, palette.emptyColor}}

Palettes == PaletteVariants(TwoColorPalette) \cup PaletteVariants(COLOR_SCHEMES.github)

\* normalized values from 0 to just above 1
NormalizedValues == {Rat(n, d) : n \in 0..(MaxDenominator + 1), d \in 1..MaxDenominator}

Values == (-MaxValue)..MaxValue

\* the arguments of a direct call of normalizeValue or of calculateColor
NoArgs == [fn |-> "none"]

NormalizeValueArgs ==
    {[fn |-> "normalizeValue", value |-> v, min |-> lo, max |-> hi] :
        v \in Values, lo \in Values, hi \in Values}

CalculateColorArgs ==
    {[fn |-> "calculateColor", normalizedValue |-> x, scheme |-> palette, isEmpty |-> e] :
        x \in NormalizedValues, palette \in Palettes, e \in BOOLEAN}

\* content and container sizes
Sizes == {[width |-> w, height |-> h] : w \in {1, MaxSize}, h \in {1, MaxSize}}

\* gesture configs with 0 < minZoom <= maxZoom; 0.5 and 3.0 are the defaults
GestureConfigs ==
    {config \in {[minZoom |-> lo, maxZoom |-> hi] :
                    lo \in {Rat(1, 2), RatOne, Rat(3, 1)},
                    hi \in {Rat(1, 2), RatOne, Rat(3, 1)}} :
        RatLeq(config.minZoom, config.maxZoom)}

\* a gesture on some content in some container: the zoom bounds are computed
\* from the sizes and the config, and a transform is clamped to them
GestureArgs ==
    {[fn |-> "calculateGestureTransform", contentSize |-> content,
      containerSize |-> container, config |-> config,
      translation |-> [x |-> Rat(t, 1), y |-> Rat(-t, 1)], scale |-> scale] :
        content \in Sizes, container \in Sizes, config \in GestureConfigs,
        t \in {-MaxTranslation, 0, MaxTranslation},
        scale \in {Rat(1, 4), RatOne, Rat(MaxSize, 1)}}

\* Thursday 2024-02-29, Friday 2024-03-01 and a day of a common-year February
LeapDay == FirstDay + 5
NonLeapDay == DaysFromCivil(2023, 2, 15)

TargetDates ==
    {At(day, h) : day \in {LeapDay, LeapDay + 1, NonLeapDay}, h \in TimesOfDay}
        \cup {InvalidDate}

\* a cell with data, as the time-based layouts are given it
LayoutCell(dateString, value) ==
    [date |-> dateString, value |-> value, x |-> 0, y |-> 0, color |-> "#40c463",
     isEmpty |-> FALSE, normalizedValue |-> 1]

\* a cell of the leap day, two cells of the day after it, and a padding cell
\* of a monthly layout
LayoutCells ==
    {LayoutCell(CivilFromDays(LeapDay), 1)}
        \cup {LayoutCell(CivilFromDays(LeapDay + 1), v) : v \in {1, 2}}
        \cup {SlotCell(EmptyString, 0, 0, "transparent")}

RECURSIVE CellLists(_)
CellLists(maxLen) ==
    IF maxLen = 0 THEN {<<>>}
    ELSE CellLists(maxLen - 1)
            \cup {Append(cells, c) : cells \in {l \in CellLists(maxLen - 1) : Len(l) = maxLen - 1},
                                     c \in LayoutCells}

\* the arguments of the monthly, yearly and weekly layouts
TargetLayoutArgs ==
    {[fn |-> f, processedData |-> cells, targetDate |-> date] :
        f \in {"calculateMonthlyLayout", "calculateYearlyLayout", "calculateWeeklyLayout"},
        cells \in CellLists(MaxSlotCells), date \in TargetDates}

DailyLayoutArgs ==
    {[fn |-> "calculateDailyLayout", processedData |-> cells, targetDate |-> date,
      timeFormat |-> format] :
        cells \in CellLists(MaxSlotCells), date \in TargetDates, format \in {"12h", "24h"}}

\* horizontal timelines of every chunk size, vertical ones of chunks of one cell
TimelineScrollLayoutArgs ==
    {a \in {[fn |-> "calculateTimelineScrollLayout", processedData |-> cells,
             scrollDirection |-> direction, chunkSize |-> size] :
                cells \in CellLists(MaxCells), direction \in {"horizontal", "vertical"},
                size \in 1..MaxChunkSize} :
        a.scrollDirection = "horizontal" \/ a.chunkSize = 1}

\* the clock up to MaxLateness hours after the midnight of the leap day and
\* of the day after it; an update interval of a second (the default) and of
\* an hour
RealTimeLayoutArgs ==
    {[fn |-> "calculateRealTimeLayout", processedData |-> cells, windowSize |-> size,
      updateInterval |-> interval, now |-> At(LeapDay, h)] :
        cells \in CellLists(MaxCells), size \in {0, HoursPerDay},
        interval \in {1000, MsPerHour},
        h \in 0..MaxLateness \cup {HoursPerDay + k : k \in 0..MaxLateness}}

\* the cell list is that of a range of -1 (reversed: no cell) to
\* MaxRenderSpan + 3 days after FirstDay, laid out as the layout argument says
HeatmapDimensionsArgs ==
    {[fn |-> "calculateHeatmapDimensions", span |-> k,
      cellSize |-> DefaultCellSize, cellSpacing |-> spacing, layout |-> l,
      gridDimensions |-> grid] :
        k \in (-1)..(MaxRenderSpan + 3), spacing \in {0, DefaultCellSpacing}, l \in Layouts,
        grid \in {NoGridDimensions}
                    \cup {GridDimensions(c, r) : c \in 1..MaxGridProp, r \in 1..MaxGridProp}}

DimensionCells ==
    processHeatmapData(<<>>, At(FirstDay, 0), At(FirstDay + args.span, 0),
                       SchemeName("github"), args.layout).value

\* every preset name, names that are no preset, and inline palettes
ResolveColorSchemeArgs ==
    {[fn |-> "resolveColorScheme", colorScheme |-> scheme] :
        scheme \in {SchemeName(name) :
                        name \in DOMAIN COLOR_SCHEMES \cup ObjectPrototype
                                    \cup {"unknown-scheme", ""}}
                    \cup {SchemeObject(palette) : palette \in Palettes}}

Props ==
    [data |-> data, startDate |-> startDate, endDate |-> endDate,
     colorScheme |-> colorScheme, layout |-> layout, columns |-> columns, rows |-> rows]

-----------------------------------------------------------------------------
(* Operations: each is one call with the arguments held in the state *)

Inputs == <<tz, data, startDate, endDate, colorScheme, layout, columns, rows, args,
            lazyLoader, dateNow, doubleTapDetector, animatedCell, timeline, memoryOptimizer>>

GenerateDateRange ==
    /\ op' = "generateDateRange"
    /\ ret' = generateDateRange(startDate, endDate)
    /\ UNCHANGED Inputs

ProcessHeatmapData ==
    /\ op' = "processHeatmapData"
    /\ ret' = processHeatmapData(data, startDate, endDate, colorScheme, layout)
    /\ UNCHANGED Inputs

\* the cells calculateCalendarLayout is given: those of the calendar layout
CalendarCells == processHeatmapData(data, startDate, endDate, colorScheme, "calendar")

CalculateCalendarLayout ==
    /\ IsReturn(CalendarCells)
    /\ op' = "calculateCalendarLayout"
    /\ ret' = calculateCalendarLayout(CalendarCells.value, startDate)
    /\ UNCHANGED Inputs

Render ==
    /\ op' = "Heatmap"
    /\ ret' = HeatmapRender(Props)
    /\ UNCHANGED Inputs

NormalizeValue ==
    /\ args.fn = "normalizeValue"
    /\ op' = "normalizeValue"
    /\ ret' = Return(normalizeValue(args.value, args.min, args.max))
    /\ UNCHANGED Inputs

CalculateColor ==
    /\ args.fn = "calculateColor"
    /\ op' = "calculateColor"
    /\ ret' = calculateColor(args.normalizedValue, args.scheme, args.isEmpty)
    /\ UNCHANGED Inputs

ResolveColorScheme ==
    /\ args.fn = "resolveColorScheme"
    /\ op' = "resolveColorScheme"
    /\ ret' = Return(resolveColorScheme(args.colorScheme))
    /\ UNCHANGED Inputs

CalculateMonthlyLayout ==
    /\ args.fn = "calculateMonthlyLayout"
    /\ op' = "calculateMonthlyLayout"
    /\ ret' = Return(calculateMonthlyLayout(args.processedData, args.targetDate))
    /\ UNCHANGED Inputs

CalculateYearlyLayout ==
    /\ args.fn = "calculateYearlyLayout"
    /\ op' = "calculateYearlyLayout"
    /\ ret' = Return(calculateYearlyLayout(args.processedData, args.targetDate))
    /\ UNCHANGED Inputs

CalculateWeeklyLayout ==
    /\ args.fn = "calculateWeeklyLayout"
    /\ op' = "calculateWeeklyLayout"
    /\ ret' = calculateWeeklyLayout(args.processedData, args.targetDate)
    /\ UNCHANGED Inputs

CalculateDailyLayout ==
    /\ args.fn = "calculateDailyLayout"
    /\ op' = "calculateDailyLayout"
    /\ ret' = calculateDailyLayout(args.processedData, args.targetDate, args.timeFormat)
    /\ UNCHANGED Inputs

\* the sort works on a copy: args.processedData is left as it is
CalculateTimelineScrollLayout ==
    /\ args.fn = "calculateTimelineScrollLayout"
    /\ op' = "calculateTimelineScrollLayout"
    /\ \E sortedData \in SortOutcomes(args.processedData) :
           ret' = Return(calculateTimelineScrollLayout(sortedData, args.scrollDirection,
                                                       args.chunkSize))
    /\ UNCHANGED Inputs

CalculateRealTimeLayout ==
    /\ args.fn = "calculateRealTimeLayout"
    /\ op' = "calculateRealTimeLayout"
    /\ ret' = Return(calculateRealTimeLayout(args.processedData, args.windowSize,
                                             args.updateInterval, args.now))
    /\ UNCHANGED Inputs

CalculateHeatmapDimensions ==
    /\ args.fn = "calculateHeatmapDimensions"
    /\ op' = "calculateHeatmapDimensions"
    /\ ret' = Return(calculateHeatmapDimensions(DimensionCells, args.cellSize,
                                                args.cellSpacing, args.layout,
                                                args.gridDimensions))
    /\ UNCHANGED Inputs

\* the other variables, which the LazyLoader leaves alone
NotLoader == <<tz, data, startDate, endDate, colorScheme, layout, columns, rows, args, ret,
               dateNow, doubleTapDetector, animatedCell, timeline, memoryOptimizer>>

GetRange(caller, startIndex, endIndex) ==
    /\ lazyLoader.calls[caller].pc = "idle"
    /\ lazyLoader.started < MaxStarts
    /\ op' = "getRange"
    /\ lazyLoader' = RunGetRange([lazyLoader EXCEPT !.started = @ + 1],
                                 caller, startIndex, endIndex, <<>>)
    /\ UNCHANGED NotLoader

PreloadAround(caller, centerIndex, radius) ==
    /\ lazyLoader.calls[caller].pc = "idle"
    /\ lazyLoader.started < MaxStarts
    /\ op' = "preloadAround"
    /\ lazyLoader' = RunPreloadAround([lazyLoader EXCEPT !.started = @ + 1],
                                      caller, centerIndex, radius)
    /\ UNCHANGED NotLoader

\* the promise of a loader call settles, and loadChunk runs to its end; a
\* getRange that awaits it is queued to go on, a preloadAround returns once
\* all its loads have settled
LoaderSettles(caller, chunkIndex, ok) ==
    /\ lazyLoader.calls[caller].pc = "loading"
    /\ chunkIndex \in lazyLoader.calls[caller].pending
    /\ op' = "loadChunk"
    /\ lazyLoader' =
           [LoaderSettled(lazyLoader, chunkIndex, ok,
                          chunkIndex \in lazyLoader.calls[caller].stale) EXCEPT
               !.calls[caller] =
                   IF @.fn = "getRange" THEN [@ EXCEPT !.pc = "resuming", !.pending = {},
                                                       !.stale = {}]
                   ELSE IF @.pending = {chunkIndex} THEN [Idle EXCEPT !.fn = "preloadAround"]
                   ELSE [@ EXCEPT !.pending = @ \ {chunkIndex}, !.stale = @ \ {chunkIndex}]]
    /\ UNCHANGED NotLoader

\* getRange goes on after `await this.loadChunk(chunkIndex)`: data[i], then
\* the loop from i + 1
GetRangeResumes(caller) ==
    /\ lazyLoader.calls[caller].pc = "resuming"
    /\ op' = "getRange"
    /\ lazyLoader' =
           RunGetRange(lazyLoader, caller, lazyLoader.calls[caller].i + 1,
                       lazyLoader.calls[caller].endIndex,
                       PushItems(lazyLoader, lazyLoader.calls[caller].result,
                                 lazyLoader.calls[caller].i, lazyLoader.calls[caller].i))
    /\ UNCHANGED NotLoader

ClearCache ==
    /\ lazyLoader.started < MaxStarts
    /\ op' = "clearCache"
    /\ lazyLoader' = ClearedCache([lazyLoader EXCEPT !.started = @ + 1])
    /\ UNCHANGED NotLoader

CalculateZoomBounds ==
    /\ args.fn = "calculateGestureTransform"
    /\ op' = "calculateZoomBounds"
    /\ ret' = Return(calculateZoomBounds(args.contentSize, args.containerSize, args.config))
    /\ UNCHANGED Inputs

\* the bounds of a gesture: the zoom bounds, and the pan bounds at the scale
\* that those allow
GestureBounds ==
    LET PanAt(zoom, scale) ==
            [minX |-> calculatePanBounds(args.contentSize, args.containerSize, scale).minX,
             maxX |-> calculatePanBounds(args.contentSize, args.containerSize, scale).maxX,
             minY |-> calculatePanBounds(args.contentSize, args.containerSize, scale).minY,
             maxY |-> calculatePanBounds(args.contentSize, args.containerSize, scale).maxY,
             minZoom |-> zoom.minZoom, maxZoom |-> zoom.maxZoom]
        Within(zoom) == PanAt(zoom, clampValue(args.scale, zoom.minZoom, zoom.maxZoom))
    IN  Within(calculateZoomBounds(args.contentSize, args.containerSize, args.config))

CalculateGestureTransform ==
    /\ args.fn = "calculateGestureTransform"
    /\ op' = "calculateGestureTransform"
    /\ ret' = Return(calculateGestureTransform(args.translation, args.scale, GestureBounds))
    /\ UNCHANGED Inputs

\* everything but the optimizer and op
NotOptimizer == <<tz, data, startDate, endDate, colorScheme, layout, columns, rows, args,
                  lazyLoader, dateNow, doubleTapDetector, animatedCell, timeline, ret>>

TrackMemoryUsage(componentId, bytes) ==
    /\ memoryOptimizer # Absent
    /\ memoryOptimizer' = trackMemoryUsage(memoryOptimizer, componentId, bytes)
    /\ op' = "trackMemoryUsage"
    /\ UNCHANGED NotOptimizer

ClearMemoryTracking(componentId) ==
    /\ memoryOptimizer # Absent
    /\ memoryOptimizer' = clearMemoryTracking(memoryOptimizer, componentId)
    /\ op' = "clearMemoryTracking"
    /\ UNCHANGED NotOptimizer

SetMaxMemoryUsage(bytes) ==
    /\ memoryOptimizer # Absent
    /\ memoryOptimizer' = setMaxMemoryUsage(memoryOptimizer, bytes)
    /\ op' = "setMaxMemoryUsage"
    /\ UNCHANGED NotOptimizer

\* everything but the timeline call, op and ret
NotTimeline == <<tz, data, startDate, endDate, colorScheme, layout, columns, rows, args,
                 lazyLoader, dateNow, doubleTapDetector, animatedCell, memoryOptimizer>>

\* calculateTimelineScrollLayout up to its loop: the arguments, the sorted
\* copy, i = 0 and an empty timelineData (chunks is its length)
TimelineCall(sortedData, scrollDirection, chunkSize) ==
    [sortedData |-> sortedData, scrollDirection |-> scrollDirection,
     chunkSize |-> chunkSize, i |-> 0, chunks |-> 0, pc |-> "test"]

\* `for (let i = 0; i < sortedData.length; i += chunkSize)`: the condition
\* holds and the body is entered
TimelineEnters ==
    /\ timeline # Absent
    /\ timeline.pc = "test"
    /\ timeline.i < Len(timeline.sortedData)
    /\ timeline' = [timeline EXCEPT !.pc = "body"]
    /\ UNCHANGED <<NotTimeline, op, ret>>

\* the body and the increment: a chunk is pushed (and a marker when the chunk
\* is not empty), then i += chunkSize
TimelineLoop ==
    /\ timeline # Absent
    /\ timeline.pc = "body"
    /\ timeline' =
           [timeline EXCEPT
               !.pc = "test",
               !.i = IF @ + timeline.chunkSize < -MaxLoopSteps THEN -MaxLoopSteps
                     ELSE @ + timeline.chunkSize,
               !.chunks = Min(@ + 1, MaxLoopSteps)]
    /\ UNCHANGED <<NotTimeline, op, ret>>

\* the loop condition fails and the call returns
TimelineReturns ==
    /\ timeline # Absent
    /\ timeline.pc = "test"
    /\ ~(timeline.i < Len(timeline.sortedData))
    /\ timeline' = [timeline EXCEPT !.pc = "returned"]
    /\ op' = "calculateTimelineScrollLayout"
    /\ ret' = Return(calculateTimelineScrollLayout(timeline.sortedData,
                                                   timeline.scrollDirection,
                                                   timeline.chunkSize))
    /\ UNCHANGED NotTimeline

\* everything but the clock, the detector, the cell, op and ret
NotGestures == <<tz, data, startDate, endDate, colorScheme, layout, columns, rows, args,
                 lazyLoader, timeline, memoryOptimizer>>

\* time passes; a setTimeout callback that is due runs first
Tick ==
    /\ dateNow < doubleTapDelay + MaxTicks * TickMs
    /\ animatedCell # Absent =>
           \A k \in DOMAIN animatedCell.timers : animatedCell.timers[k].due > dateNow
    /\ dateNow' = dateNow + TickMs
    /\ UNCHANGED <<NotGestures, doubleTapDetector, animatedCell, op, ret>>

DetectDoubleTap ==
    /\ doubleTapDetector # Absent
    /\ Len(doubleTapDetector.calls) < MaxTaps
    /\ LET tap == detectDoubleTap(doubleTapDetector.lastTap, dateNow)
       IN  /\ doubleTapDetector' =
                  [lastTap |-> tap.lastTap, isReset |-> FALSE,
                   calls |-> Append(doubleTapDetector.calls,
                                    [time |-> dateNow, ret |-> tap.ret,
                                     callbacks |-> tap.callbacks,
                                     first |-> doubleTapDetector.isReset])]
           /\ ret' = Return(tap.ret)
    /\ op' = "detectDoubleTap"
    /\ UNCHANGED <<NotGestures, dateNow, animatedCell>>

Reset ==
    /\ doubleTapDetector # Absent
    /\ doubleTapDetector' = [doubleTapDetector EXCEPT !.lastTap = 0, !.isReset = TRUE]
    /\ op' = "reset"
    /\ ret' = Return(Undefined)
    /\ UNCHANGED <<NotGestures, dateNow, animatedCell>>

Press ==
    /\ animatedCell # Absent
    /\ Len(animatedCell.presses) < MaxPresses
    /\ animatedCell' = handlePress(animatedCell, dateNow)
    /\ op' = "handlePress"
    /\ ret' = Return(Undefined)
    /\ UNCHANGED <<NotGestures, dateNow, doubleTapDetector>>

TimerFires ==
    /\ animatedCell # Absent
    /\ animatedCell.timers # <<>>
    /\ Head(animatedCell.timers).due <= dateNow
    /\ animatedCell' = timerCallback(animatedCell)
    /\ op' = "setTimeout"
    /\ ret' = Return(Undefined)
    /\ UNCHANGED <<NotGestures, dateNow, doubleTapDetector>>

-----------------------------------------------------------------------------
(* Specifications *)

\* no detector, cell, timeline call or optimizer exists
NoOtherObjects ==
    /\ dateNow = 0
    /\ doubleTapDetector = Absent
    /\ animatedCell = Absent
    /\ timeline = Absent
    /\ memoryOptimizer = Absent

\* ranges of up to MaxSpan days, for the range and calendar functions
InitCalendar ==
    /\ tz \in TimeZones
    /\ startDate \in StartDates(MaxStartShift)
    /\ endDate \in EndDates(startDate, MaxSpan)
    /\ data \in {<<>>, <<Observation(FirstDay + 1, MaxObsValue)>>}
    /\ colorScheme = SchemeName("github")
    /\ layout = "calendar"
    /\ columns = Unset /\ rows = Unset
    /\ args = NoArgs
    /\ op = "none" /\ ret = Return(<<>>)
    /\ lazyLoader = NoLazyLoader
    /\ NoOtherObjects

NextCalendar == GenerateDateRange \/ ProcessHeatmapData \/ CalculateCalendarLayout

SpecCalendar == InitCalendar /\ [][NextCalendar]_vars

\* short ranges with every observation list, layout and palette argument
InitFill ==
    /\ tz \in TimeZones
    /\ startDate \in StartDates(1)
    /\ endDate \in EndDates(startDate, MaxFillSpan)
    /\ data \in ObservationLists
    /\ colorScheme \in {SchemeName("github"), SchemeObject(TwoColorPalette)}
    /\ layout \in Layouts
    /\ columns = Unset /\ rows = Unset
    /\ args = NoArgs
    /\ op = "none" /\ ret = Return(<<>>)
    /\ lazyLoader = NoLazyLoader
    /\ NoOtherObjects

NextFill == ProcessHeatmapData

SpecFill == InitFill /\ [][NextFill]_vars

\* the Heatmap component with its grid props
InitRender ==
    /\ tz = 0
    /\ startDate = At(FirstDay, 0)
    /\ endDate \in {At(FirstDay + k, 0) : k \in 0..MaxRenderSpan}
    /\ data \in {<<>>, <<Observation(FirstDay + 1, MaxObsValue)>>}
    /\ colorScheme = SchemeName("github")
    /\ layout \in Layouts
    /\ columns \in 0..MaxGridProp /\ rows \in 0..MaxGridProp
    /\ args = NoArgs
    /\ op = "none" /\ ret = Return(<<>>)
    /\ lazyLoader = NoLazyLoader
    /\ NoOtherObjects

NextRender == Render

SpecRender == InitRender /\ [][NextRender]_vars

\* direct calls of the numeric helpers and of resolveColorScheme; min <= max as
\* processHeatmapData passes them
InitColor ==
    /\ tz = 0
    /\ startDate = At(FirstDay, 0)
    /\ endDate = At(FirstDay, 0)
    /\ data = <<>>
    /\ colorScheme = SchemeName("github")
    /\ layout = "calendar"
    /\ columns = Unset /\ rows = Unset
    /\ args \in {a \in NormalizeValueArgs : a.min <= a.max} \cup CalculateColorArgs
                \cup ResolveColorSchemeArgs
    /\ op = "none" /\ ret = Return(<<>>)
    /\ lazyLoader = NoLazyLoader
    /\ NoOtherObjects

NextColor == NormalizeValue \/ CalculateColor \/ ResolveColorScheme

SpecColor == InitColor /\ [][NextColor]_vars

\* direct calls of the time-based layouts and of calculateHeatmapDimensions;
\* the timeline, which reads the time zone for its labels only, in UTC
InitLayouts ==
    /\ args \in TargetLayoutArgs \cup DailyLayoutArgs \cup TimelineScrollLayoutArgs
                \cup RealTimeLayoutArgs \cup HeatmapDimensionsArgs
    /\ tz \in IF args.fn = "calculateTimelineScrollLayout" THEN {0} ELSE TimeZones
    /\ startDate = At(FirstDay, 0)
    /\ endDate = At(FirstDay, 0)
    /\ data = <<>>
    /\ colorScheme = SchemeName("github")
    /\ layout = "calendar"
    /\ columns = Unset /\ rows = Unset
    /\ op = "none" /\ ret = Return(<<>>)
    /\ lazyLoader = NoLazyLoader
    /\ NoOtherObjects

NextLayouts ==
    \/ CalculateMonthlyLayout
    \/ CalculateYearlyLayout
    \/ CalculateWeeklyLayout
    \/ CalculateDailyLayout
    \/ CalculateTimelineScrollLayout
    \/ CalculateRealTimeLayout
    \/ CalculateHeatmapDimensions

SpecLayouts == InitLayouts /\ [][NextLayouts]_vars

\* a LazyLoader over MaxChunks chunks of null items, as in the tests, with
\* calls of getRange and preloadAround that interleave at their awaits
InitLoader ==
    /\ tz = 0
    /\ startDate = At(FirstDay, 0)
    /\ endDate = At(FirstDay, 0)
    /\ data = <<>>
    /\ colorScheme = SchemeName("github")
    /\ layout = "calendar"
    /\ columns = Unset /\ rows = Unset
    /\ args = NoArgs
    /\ op = "none" /\ ret = Return(<<>>)
    /\ lazyLoader = NewLazyLoader([k \in 1..(MaxChunks * LoaderChunkSize) |-> 0],
                                  LoaderChunkSize, 1..MaxCallers)
    /\ NoOtherObjects

NextLoader ==
    \/ \E caller \in 1..MaxCallers :
           \E startIndex \in 0..(Len(lazyLoader.data) - 1) :
               \E endIndex \in startIndex..(Len(lazyLoader.data) - 1) :
                   GetRange(caller, startIndex, endIndex)
    \/ \E caller \in 1..MaxCallers :
           \E centerIndex \in 0..(Len(lazyLoader.data) - 1) : \E radius \in 0..MaxRadius :
               PreloadAround(caller, centerIndex, radius)
    \/ \E caller \in 1..MaxCallers :
           \E chunkIndex \in DOMAIN lazyLoader.loaderCalls : \E ok \in BOOLEAN :
               LoaderSettles(caller, chunkIndex, ok)
    \/ \E caller \in 1..MaxCallers : GetRangeResumes(caller)
    \/ ClearCache

SpecLoader == InitLoader /\ [][NextLoader]_vars

\* the heatmap inputs of a specification that is about another object
NoHeatmap ==
    /\ tz = 0
    /\ startDate = At(FirstDay, 0)
    /\ endDate = At(FirstDay, 0)
    /\ data = <<>>
    /\ colorScheme = SchemeName("github")
    /\ layout = "calendar"
    /\ columns = Unset /\ rows = Unset
    /\ op = "none" /\ ret = Return(<<>>)
    /\ lazyLoader = NoLazyLoader

\* a DoubleTapDetector called at any times.  Date.now() of a running device is
\* about 1.7e12; every reading from doubleTapDelay on behaves alike, and the
\* clock starts there.
InitDetector ==
    /\ NoHeatmap
    /\ args = NoArgs
    /\ dateNow = doubleTapDelay
    /\ doubleTapDetector = NewDoubleTapDetector
    /\ animatedCell = Absent
    /\ timeline = Absent
    /\ memoryOptimizer = Absent

NextDetector == DetectDoubleTap \/ Reset \/ Tick

SpecDetector == InitDetector /\ [][NextDetector]_vars

\* an AnimatedCell pressed at any times
InitPress ==
    /\ NoHeatmap
    /\ args = NoArgs
    /\ dateNow = doubleTapDelay
    /\ doubleTapDetector = Absent
    /\ animatedCell \in {NewAnimatedCell(onPress, onDoublePress) :
                             onPress \in BOOLEAN, onDoublePress \in BOOLEAN}
    /\ timeline = Absent
    /\ memoryOptimizer = Absent

NextPress == Press \/ TimerFires \/ Tick

SpecPress == InitPress /\ [][NextPress]_vars

\* calculateTimelineScrollLayout called with any chunkSize, followed through
\* its loop; the loop is straight-line code, so it goes on while it can
InitTimeline ==
    /\ NoHeatmap
    /\ args = NoArgs
    /\ dateNow = 0
    /\ doubleTapDetector = Absent
    /\ animatedCell = Absent
    /\ memoryOptimizer = Absent
    /\ \E cells \in CellLists(MaxCells) : \E sortedData \in SortOutcomes(cells) :
           timeline \in {TimelineCall(sortedData, direction, size) :
                             direction \in {"horizontal", "vertical"},
                             size \in (-1)..MaxChunkSize}

NextTimeline == TimelineEnters \/ TimelineLoop \/ TimelineReturns

SpecTimeline == InitTimeline /\ [][NextTimeline]_vars /\ WF_vars(NextTimeline)

\* zoom bounds and clamped transforms of gestures
InitGestures ==
    /\ NoHeatmap
    /\ NoOtherObjects
    /\ args \in GestureArgs

NextGestures == CalculateZoomBounds \/ CalculateGestureTransform

SpecGestures == InitGestures /\ [][NextGestures]_vars

\* a MemoryOptimizer as MemoryOptimizer.getInstance() first gives it
InitOptimizer ==
    /\ NoHeatmap
    /\ args = NoArgs
    /\ dateNow = 0
    /\ doubleTapDetector = Absent
    /\ animatedCell = Absent
    /\ timeline = Absent
    /\ memoryOptimizer = NewMemoryOptimizer

NextOptimizer ==
    \/ \E componentId \in 1..MaxComponents : \E bytes \in 0..MaxBytes :
           TrackMemoryUsage(componentId, bytes)
    \/ \E componentId \in 1..MaxComponents : ClearMemoryTracking(componentId)
    \/ \E bytes \in 0..MaxBytes : SetMaxMemoryUsage(bytes)

SpecOptimizer == InitOptimizer /\ [][NextOptimizer]_vars

-----------------------------------------------------------------------------
(* Properties.  Each one reads the arguments of the last operation from the  *)
(* state and its result from ret.                                            *)

\* a valid range with start <= end
ValidRange ==
    IsValidDate(startDate) /\ IsValidDate(endDate) /\ getTime(startDate) <= getTime(endDate)

\* the k-th calendar date (0-based) from the date of startDate on, and the
\* number of calendar dates from the date of startDate to the date of endDate
RangeDate(k) == CivilFromDays(UTCDays(getTime(startDate)) + k)
RangeDays == UTCDays(getTime(endDate)) - UTCDays(getTime(startDate)) + 1

\* the weekday (0 = Sunday) of an ISO date string
WeekdayOf(dateString) ==
    WeekdayOfDays(DaysFromCivil(dateString.y, dateString.m, dateString.d))

\* the value of the color channel at hex digits k + 1, k + 2
Channel(color, k) == 16 * color[k + 1] + color[k + 2]

\* C1: dense fill.  For every observation list and every valid range with
\* start <= end, processHeatmapData returns exactly one cell per calendar date
\* from the start date to the end date, in date order; a date with a matching
\* observation gives a non-empty cell with that observation's value and
\* metadata, a date without one gives an empty cell of value 0.
C1_DenseFill ==
    (op = "processHeatmapData" /\ ValidRange) =>
        /\ IsReturn(ret)
        /\ Len(ret.value) = RangeDays
        /\ \A i \in 1..RangeDays :
              LET cell == ret.value[i]
                  matching == {k \in 1..Len(data) : data[k].date = RangeDate(i - 1)}
              IN /\ cell.date = RangeDate(i - 1)
                 /\ matching # {} =>
                       /\ ~cell.isEmpty
                       /\ \E k \in matching : /\ cell.value = data[k].value
                                              /\ cell.metadata = data[k].metadata
                 /\ matching = {} => (cell.isEmpty /\ cell.value = 0)

\* C2: month boundary partition.  The monthBoundaries segments returned by
\* calculateCalendarLayout are contiguous and cover every week index from 0 to
\* maxWeek exactly once: the first starts at week 0, each starts where the
\* previous one ends, and the last ends at maxWeek inclusive.
C2_MonthBoundariesPartition ==
    (op = "calculateCalendarLayout" /\ IsReturn(ret) /\ CalendarCells.value # <<>>) =>
        LET segments == ret.value.monthBoundaries
            maxWeek == ret.value.weeks - 1
        IN /\ \A w \in 0..maxWeek :
                  Cardinality({i \in 1..Len(segments) :
                                  segments[i].x <= w /\ w < segments[i].x + segments[i].width}) = 1
           /\ \A i \in 1..(Len(segments) - 1) :
                  segments[i + 1].x = segments[i].x + segments[i].width
           /\ segments # <<>> =>
                  /\ segments[1].x = 0
                  /\ segments[Len(segments)].x + segments[Len(segments)].width - 1 = maxWeek

\* C3: date range.  For every valid start <= end, whatever their time of day,
\* generateDateRange returns one ISO date per calendar day from the date of
\* start to the date of end: it begins with the start date, ends with the end
\* date, and each date is one calendar day after the previous one.
C3_DateRangeCoversBothEnds ==
    (op = "generateDateRange" /\ ValidRange) =>
        /\ IsReturn(ret)
        /\ Len(ret.value) = RangeDays
        /\ \A i \in 1..RangeDays : ret.value[i] = RangeDate(i - 1)

\* C4: invalid dates fail loudly.  A call of generateDateRange or of
\* processHeatmapData with an invalid start or end date throws; it does not
\* return a result.
C4_InvalidDatesFailLoudly ==
    (/\ op \in {"generateDateRange", "processHeatmapData"}
     /\ (~IsValidDate(startDate) \/ ~IsValidDate(endDate))) => IsThrow(ret)

\* C5: layout coordinates.  The i-th cell (0-based) of the n cells returned by
\* processHeatmapData has, for 'calendar', x = floor(i / 7) and y = the weekday
\* of its date; for 'grid', x = i mod ceil(sqrt(n)) and y = floor(i /
\* ceil(sqrt(n))); for 'compact', x = i and y = 0.
C5_LayoutCoordinates ==
    (op = "processHeatmapData" /\ IsReturn(ret)
        /\ layout \in {"calendar", "grid", "compact"}) =>
        \A i \in 1..Len(ret.value) :
            LET cell == ret.value[i]
                gridColumns == CeilSqrt(Len(ret.value))
            IN CASE layout = "calendar" ->
                      cell.x = (i - 1) \div 7 /\ cell.y = WeekdayOf(cell.date)
                 [] layout = "grid" ->
                      cell.x = (i - 1) % gridColumns /\ cell.y = (i - 1) \div gridColumns
                 [] layout = "compact" ->
                      cell.x = i - 1 /\ cell.y = 0

\* C6: grid override.  When the Heatmap component is given layout 'grid' with
\* explicit columns and rows, the i-th cell (0-based) has x = i mod columns, so
\* x < columns; and when there are at most columns * rows cells, y < rows and
\* the rectangle drawn for the cell lies inside the computed width and height.
C6_GridOverride ==
    (op = "Heatmap" /\ IsReturn(ret) /\ layout = "grid"
        /\ columns # Unset /\ rows # Unset) =>
        \A i \in 1..Len(ret.value.processedData) :
            LET cell == ret.value.processedData[i]
                rect == ret.value.rects[i]
            IN /\ cell.x = (i - 1) % columns
               /\ cell.x < columns
               /\ Len(ret.value.processedData) <= columns * rows =>
                     /\ cell.y < rows
                     /\ rect.x + rect.width <= ret.value.dimensions.width
                     /\ rect.y + rect.height <= ret.value.dimensions.height

\* C7: week buckets.  For a non-empty calendar cell list, calculateCalendarLayout
\* returns maxWeek + 1 buckets of exactly 7 cells; the cell at position d of
\* bucket w has x = w and y = d; it is the input cell of that position when
\* there is one, and otherwise an empty cell of value 0 dated startDate + w * 7
\* + d days.
C7_WeekBuckets ==
    (op = "calculateCalendarLayout" /\ CalendarCells.value # <<>>) =>
        LET cells == CalendarCells.value
            maxWeek == CHOOSE m \in {cells[i].x : i \in 1..Len(cells)} :
                           \A i \in 1..Len(cells) : cells[i].x <= m
        IN /\ IsReturn(ret)
           /\ ret.value.weeks = maxWeek + 1
           /\ Len(ret.value.weekData) = maxWeek + 1
           /\ \A w \in 1..Len(ret.value.weekData) :
                 /\ Len(ret.value.weekData[w]) = 7
                 /\ \A d \in 1..7 :
                       LET cell == ret.value.weekData[w][d]
                           inputs == {i \in 1..Len(cells) :
                                         cells[i].x = w - 1 /\ cells[i].y = d - 1}
                       IN /\ cell.x = w - 1
                          /\ cell.y = d - 1
                          /\ inputs # {} => \E i \in inputs : cell = cells[i]
                          /\ inputs = {} =>
                                /\ cell.isEmpty
                                /\ cell.value = 0
                                /\ cell.date = RangeDate((w - 1) * 7 + (d - 1))

\* reached: two buckets, one holding an input cell with an observation and one
\* holding a padding cell
C7_Witness ==
    /\ op = "calculateCalendarLayout" /\ IsReturn(ret)
    /\ CalendarCells.value # <<>>
    /\ Len(ret.value.weekData) >= 2
    /\ \E w \in 1..Len(ret.value.weekData) : \E d \in 1..7 :
           ~ret.value.weekData[w][d].isEmpty
    /\ \E w \in 1..Len(ret.value.weekData) : \E d \in 1..7 :
           \A i \in 1..Len(CalendarCells.value) :
               ret.value.weekData[w][d] # CalendarCells.value[i]

C9_NormalizeRangeMonotonic ==
    (op = "normalizeValue" /\ args.min <= args.max) =>
        /\ ret.value.d > 0
        /\ 0 <= ret.value.n
        /\ ret.value.n <= ret.value.d
        /\ \A v \in Values :
               args.value <= v =>
                   LET larger == normalizeValue(v, args.min, args.max)
                   IN ret.value.n * larger.d <= larger.n * ret.value.d
        /\ args.min = args.max =>
               ret.value = IF args.value > 0 THEN [n |-> 1, d |-> 1] ELSE [n |-> 0, d |-> 1]

\* reached: a value above max, normalized to 1, with min < max
C9_Witness ==
    /\ op = "normalizeValue"
    /\ args.min < args.max /\ args.value > args.max
    /\ ret.value = [n |-> 1, d |-> 1]

\* C10: empty-cell color independence.  For every palette and normalized value
\* x, calculateColor(x, palette, true) equals calculateColor(0, palette, false),
\* and both are the palette's emptyColor, or its first color when emptyColor
\* is unset.
C10_EmptyColorIndependence ==
    (op = "calculateColor" /\ args.isEmpty) =>
        LET emptyColor == IF args.scheme.emptyColor # NoColor
                          THEN args.scheme.emptyColor
                          ELSE args.scheme.colors[1]
        IN /\ ret = Return(emptyColor)
           /\ calculateColor([n |-> 0, d |-> 1], args.scheme, FALSE) = Return(emptyColor)

\* reached: an empty cell with a non-zero normalized value, colored with an
\* emptyColor that is not the first palette color
C10_Witness ==
    /\ op = "calculateColor" /\ args.isEmpty
    /\ args.normalizedValue.n > 0
    /\ args.scheme.emptyColor # NoColor
    /\ args.scheme.emptyColor # args.scheme.colors[1]
    /\ ret = Return(args.scheme.emptyColor)

\* C11 as stated: with layout 'custom' or with the layout argument left
\* unspecified, processHeatmapData positions the i-th of n cells (0-based) at
\* x = i mod ceil(sqrt(n)), y = floor(i / ceil(sqrt(n))).
C11_LayoutFallback ==
    (op = "processHeatmapData" /\ IsReturn(ret) /\ layout \in {"custom", Undefined}) =>
        \A i \in 1..Len(ret.value) :
            /\ ret.value[i].x = (i - 1) % CeilSqrt(Len(ret.value))
            /\ ret.value[i].y = (i - 1) \div CeilSqrt(Len(ret.value))

\* C11 amended: with layout 'custom' the cells are positioned by the grid
\* policy; with the layout argument left unspecified the result is that of
\* layout 'calendar'.
C11_CustomFallsBackToGrid ==
    (op = "processHeatmapData" /\ layout \in {"custom", Undefined}) =>
        /\ layout = "custom" =>
               /\ IsReturn(ret)
               /\ \A i \in 1..Len(ret.value) :
                      /\ ret.value[i].x = (i - 1) % CeilSqrt(Len(ret.value))
                      /\ ret.value[i].y = (i - 1) \div CeilSqrt(Len(ret.value))
        /\ layout = Undefined =>
               ret = processHeatmapData(data, startDate, endDate, colorScheme, "calendar")

\* reached: three cells or more with layout 'custom', the last in a second row
C11_Witness ==
    /\ op = "processHeatmapData" /\ IsReturn(ret)
    /\ layout = "custom"
    /\ Len(ret.value) >= 3
    /\ ret.value[Len(ret.value)].y >= 1

\* C12: reversed range.  When end < start, generateDateRange and
\* processHeatmapData return an empty sequence and throw nothing, whatever the
\* observation list.
C12_ReversedRangeIsEmpty ==
    (/\ op \in {"generateDateRange", "processHeatmapData"}
     /\ IsValidDate(startDate) /\ IsValidDate(endDate)
     /\ getTime(endDate) < getTime(startDate)) => ret = Return(<<>>)

\* reached: processHeatmapData with an observation and an end date on the day
\* before the start
C12_Witness ==
    /\ op = "processHeatmapData"
    /\ data # <<>>
    /\ IsValidDate(startDate) /\ IsValidDate(endDate)
    /\ UTCDays(getTime(endDate)) < UTCDays(getTime(startDate))
    /\ ret = Return(<<>>)

\* C13: duplicate dates are last-wins.  The cell of a date that several
\* observations share carries the value and metadata of the one that comes
\* last in the list, and no date has more than one cell.
C13_DuplicatesLastWins ==
    (op = "processHeatmapData" /\ IsReturn(ret)) =>
        /\ \A i \in 1..Len(ret.value) :
               LET matching == {k \in 1..Len(data) : data[k].date = ret.value[i].date}
               IN matching # {} =>
                      \E last \in matching :
                          /\ \A k \in matching : k <= last
                          /\ ~ret.value[i].isEmpty
                          /\ ret.value[i].value = data[last].value
                          /\ ret.value[i].metadata = data[last].metadata
        /\ \A i \in 1..Len(ret.value) : \A j \in 1..Len(ret.value) :
               ret.value[i].date = ret.value[j].date => i = j

\* reached: two observations of one date with different values and metadata,
\* and the cell of that date carrying the second
C13_Witness ==
    /\ op = "processHeatmapData" /\ IsReturn(ret)
    /\ Len(data) = 2
    /\ data[1].date = data[2].date
    /\ data[1].value # data[2].value
    /\ data[1].metadata # data[2].metadata
    /\ \E i \in 1..Len(ret.value) :
           /\ ret.value[i].date = data[2].date
           /\ ret.value[i].value = data[2].value
           /\ ret.value[i].metadata = data[2].metadata

\* the month of a date in local time: its year, its number 1..12, the day
\* number of its 1st, its length and the weekday of its 1st
TargetMonth(date) ==
    LET Of(year, month) ==
            [y |-> year, m |-> month,
             days |-> DaysFromCivil(year + month \div 12, (month % 12) + 1, 1)
                          - DaysFromCivil(year, month, 1),
             offset |-> WeekdayOfDays(DaysFromCivil(year, month, 1))]
    IN Of(getFullYear(getTime(date), tz), getMonth(getTime(date), tz) + 1)

IsLeapYear(year) == (year % 4 = 0 /\ year % 100 # 0) \/ year % 400 = 0

\* C14: the monthly grid has ceil((daysInMonth + offset) / 7) rows of 7 slots;
\* day d of the target month is in exactly the slot of row (d - 1 + offset)
\* div 7 and column (d - 1 + offset) mod 7; every other slot is the padding
\* cell (empty date, 'transparent', isEmpty), whatever the input holds; and
\* February has 29 days in a leap year, 28 otherwise.
C14_MonthlyGrid ==
    (op = "calculateMonthlyLayout" /\ IsValidDate(args.targetDate)) =>
        LET Holds(target, grid) ==
                /\ ret.value.daysInMonth = target.days
                /\ target.m = 2 => target.days = IF IsLeapYear(target.y) THEN 29 ELSE 28
                /\ Len(grid) = CeilDiv(target.days + target.offset, 7)
                /\ \A w \in 1..Len(grid) : Len(grid[w]) = 7
                /\ \A w \in 1..Len(grid) : \A c \in 1..7 :
                       LET index == (w - 1) * 7 + (c - 1) - target.offset
                       IN IF index \in 0..(target.days - 1)
                          THEN grid[w][c].date = [y |-> target.y, m |-> target.m, d |-> index + 1]
                          ELSE grid[w][c] = SlotCell(EmptyString, c - 1, w - 1, "transparent")
        IN Holds(TargetMonth(args.targetDate), ret.value.monthData)

\* how often a cell occurs in a list
Occurrences(cells, cell) == Cardinality({i \in 1..Len(cells) : cells[i] = cell})

\* C15: the timeline has ceil(n / chunkSize) chunks, all of chunkSize cells
\* but possibly the last; the chunks together are the input cells, none lost
\* or duplicated, in non-decreasing date order; chunk k has one marker, with
\* the date of its first cell and its start index; an empty input gives no
\* chunk, no marker and totalScrollSize 0.  (That the input list keeps its
\* order is UNCHANGED Inputs in CalculateTimelineScrollLayout.)
C15_TimelineChunks ==
    op = "calculateTimelineScrollLayout" =>
        LET Holds(input, size, chunks, markers, all) ==
                /\ Len(chunks) = CeilDiv(Len(input), size)
                /\ \A k \in 1..Len(chunks) :
                       /\ k < Len(chunks) => Len(chunks[k]) = size
                       /\ Len(chunks[k]) \in 1..size
                /\ Len(all) = Len(input)
                /\ \A i \in 1..Len(input) :
                       Occurrences(all, input[i]) = Occurrences(input, input[i])
                /\ \A i, j \in 1..Len(all) :
                       (/\ i < j
                        /\ IsValidDate(NewDate(all[i].date))
                        /\ IsValidDate(NewDate(all[j].date)))
                           => getTime(NewDate(all[i].date)) <= getTime(NewDate(all[j].date))
                /\ Len(markers) = Len(chunks)
                /\ \A k \in 1..Len(markers) :
                       /\ markers[k].timestamp = chunks[k][1].date
                       /\ markers[k].position = (k - 1) * size
                /\ input = <<>> => /\ chunks = <<>> /\ markers = <<>>
                                   /\ ret.value.totalScrollSize = 0
        IN Holds(args.processedData, args.chunkSize, ret.value.timelineData,
                 ret.value.scrollMarkers, Flat(ret.value.timelineData))

\* the day number of the Sunday on or before a date, in local time
StartOfWeekDay(date) == LocalDays(getTime(date), tz) - getDay(getTime(date), tz)

\* C16: for a valid target date and every cell list, the daily layout has 24
\* hour cells and 24 boundaries (x = 0..23, width 1), the weekly layout 7 day
\* cells and 7 boundaries for the 7 days from the start of the target date's
\* week on, the yearly layout 12 month lists and 12 boundaries; with an
\* empty list none of them throws and every cell is empty with value 0.
C16_FixedSlots ==
    /\ (op = "calculateDailyLayout" /\ IsValidDate(args.targetDate)) =>
           /\ IsReturn(ret)
           /\ Len(ret.value.hourData) = 24
           /\ Len(ret.value.timeBoundaries) = 24
           /\ \A i \in 1..24 : /\ ret.value.timeBoundaries[i].x = i - 1
                               /\ ret.value.timeBoundaries[i].width = 1
           /\ args.processedData = <<>> =>
                  \A i \in 1..24 : /\ ret.value.hourData[i].isEmpty
                                      /\ ret.value.hourData[i].value = 0
    /\ (op = "calculateWeeklyLayout" /\ IsValidDate(args.targetDate)) =>
           /\ IsReturn(ret)
           /\ Len(ret.value.dayData) = 7
           /\ Len(ret.value.dayBoundaries) = 7
           /\ \A i \in 1..7 :
                  ret.value.dayData[i].date
                      = CivilFromDays(StartOfWeekDay(args.targetDate) + i - 1)
           /\ args.processedData = <<>> =>
                  \A i \in 1..7 : /\ ret.value.dayData[i].isEmpty
                                     /\ ret.value.dayData[i].value = 0
    /\ (op = "calculateYearlyLayout" /\ IsValidDate(args.targetDate)) =>
           /\ IsReturn(ret)
           /\ Len(ret.value.yearData) = 12
           /\ Len(ret.value.monthBoundaries) = 12
           /\ args.processedData = <<>> =>
                  \A m \in 1..12 : \A i \in 1..Len(ret.value.yearData[m]) :
                      /\ ret.value.yearData[m][i].isEmpty
                      /\ ret.value.yearData[m][i].value = 0

\* the time of a cell, in hours: UTC midnight of its date
CellTime(cell) == DaysFromCivil(cell.date.y, cell.date.m, cell.date.d) * HoursPerDay

\* C17: with the clock at args.now, dataBuffer is the input cells with
\* now - windowSize hours <= t <= now, in input order; liveIndicators has one
\* entry per retained cell, at the cell's index in dataBuffer, active exactly
\* when now - t < 2 * updateInterval milliseconds; updateQueue is empty.
\* Nothing but the arguments and now enters the result.
C17_RealTimeWindow ==
    op = "calculateRealTimeLayout" =>
        LET Retained(cell) ==
                /\ DOMAIN cell.date = {"y", "m", "d"}
                /\ getTime(args.now) - args.windowSize <= CellTime(cell)
                /\ CellTime(cell) <= getTime(args.now)
            Holds(buffer, indicators) ==
                /\ ret.value.dataBuffer = buffer
                /\ Len(indicators) = Len(buffer)
                /\ \A k \in 1..Len(buffer) :
                       /\ indicators[k].position = k - 1
                       /\ indicators[k].active
                              <=> (getTime(args.now) - CellTime(buffer[k])) * 3600000
                                      < 2 * args.updateInterval
                /\ ret.value.updateQueue = <<>>
        IN Holds(SelectSeq(args.processedData, Retained), ret.value.liveIndicators)

\* reached: a window whose two ends are the times of two cells, one of them
\* live and the other not, and a third cell that is dropped
C17_Witness ==
    /\ op = "calculateRealTimeLayout"
    /\ Len(args.processedData) = 3
    /\ Len(ret.value.dataBuffer) = 2
    /\ CellTime(ret.value.dataBuffer[1]) = getTime(args.now) - args.windowSize
    /\ CellTime(ret.value.dataBuffer[2]) = getTime(args.now)
    /\ ~ret.value.liveIndicators[1].active
    /\ ret.value.liveIndicators[2].active

\* a is the finite number b (NaN and -Infinity are no finite number)
IsNumber(a, b) == ToString(a) = ToString(b)

\* C18: for every cell list, the empty one included, width = countX * (size
\* + spacing) - spacing and height = countY * (size + spacing) - spacing,
\* where (countX, countY) is (number of weeks, 7) for calendar, (number of
\* cells, 1) for compact and (columns, rows) for grid and custom: the
\* dimensions given, or else columns = ceil(sqrt(n)), rows = ceil(n / columns)
\* (which says nothing of the rows of no cell at all: n / columns is 0 / 0).
C18_DimensionFormula ==
    (op = "calculateHeatmapDimensions" /\ args.layout \in {"calendar", "compact", "grid", "custom"}) =>
        LET n == Len(DimensionCells)
            weeks == IF n = 0 THEN 0
                     ELSE 1 + CHOOSE w \in {DimensionCells[i].x : i \in 1..n} :
                                  \A i \in 1..n : DimensionCells[i].x <= w
            gridColumns == IF args.gridDimensions # <<>> THEN args.gridDimensions[1].columns
                           ELSE CeilSqrt(n)
            gridRows == IF args.gridDimensions # <<>> THEN args.gridDimensions[1].rows
                        ELSE CeilDiv(n, CeilSqrt(n))
            countX == CASE args.layout = "calendar" -> weeks
                        [] args.layout = "compact" -> n
                        [] OTHER -> gridColumns
            countY == CASE args.layout = "calendar" -> 7
                        [] args.layout = "compact" -> 1
                        [] OTHER -> gridRows
        IN /\ IsNumber(ret.value.width,
                       countX * (args.cellSize + args.cellSpacing) - args.cellSpacing)
           /\ (args.layout \in {"calendar", "compact"} \/ args.gridDimensions # <<>> \/ n > 0)
                  => IsNumber(ret.value.height,
                              countY * (args.cellSize + args.cellSpacing) - args.cellSpacing)

\* C19: resolveColorScheme returns the preset of a preset's name, the
\* 'github' preset for every other name, and an inline palette as it is.
C19_PaletteFallback ==
    op = "resolveColorScheme" =>
        /\ args.colorScheme.typeof = "string" =>
               ret = Return(IF args.colorScheme.name \in DOMAIN COLOR_SCHEMES
                            THEN COLOR_SCHEMES[args.colorScheme.name]
                            ELSE COLOR_SCHEMES.github)
        /\ args.colorScheme.typeof = "object" => ret = Return(args.colorScheme.palette)

\* C20: since the last clearCache(), the loader callback was called at most
\* once for every chunk that has loaded successfully, calls that were
\* rejected left aside.
C20_NoDoubleFetch ==
    lazyLoader # NoLazyLoader =>
        \A c \in DOMAIN lazyLoader.loaderCalls :
            lazyLoader.resolved[c] >= 1 =>
                lazyLoader.loaderCalls[c] - lazyLoader.rejected[c] <= 1

\* C21: a call of detectDoubleTap returns true, and calls its callback once,
\* exactly when it is not the first call since construction or reset() and
\* the call before it returned false less than 300 ms earlier; otherwise it
\* returns false and does not call the callback.  So the call after a
\* detected double tap returns false.
C21_DoubleTap ==
    doubleTapDetector # Absent =>
        \A i \in DOMAIN doubleTapDetector.calls :
            LET call == doubleTapDetector.calls[i]
                Before == doubleTapDetector.calls[i - 1]
            IN  /\ call.ret = (/\ ~call.first
                               /\ ~Before.ret
                               /\ call.time - Before.time < 300)
                /\ call.callbacks = IF call.ret THEN 1 ELSE 0

\* a double tap, a tap right after it that is none, and a first call after
\* reset() that comes right after a tap
C21_Witness ==
    /\ doubleTapDetector # Absent
    /\ Len(doubleTapDetector.calls) = 4
    /\ doubleTapDetector.calls[2].ret
    /\ ~doubleTapDetector.calls[3].ret
    /\ doubleTapDetector.calls[3].time - doubleTapDetector.calls[2].time < 300
    /\ doubleTapDetector.calls[4].first
    /\ doubleTapDetector.calls[4].time - doubleTapDetector.calls[3].time < 300

\* C22: with an onDoublePress handler, a double tap invokes onDoublePress once
\* and onPress for neither of its presses; a press that is in no double tap
\* invokes onPress once, 150 ms later, and never onDoublePress.
C22_PressOrDoublePress ==
    (animatedCell # Absent /\ animatedCell.onDoublePress /\ animatedCell.onPress) =>
        \A i \in DOMAIN animatedCell.presses :
            LET InDoubleTap ==
                    \/ animatedCell.presses[i].isDoubleTap
                    \/ /\ i < Len(animatedCell.presses)
                       /\ animatedCell.presses[i + 1].isDoubleTap
                Events(event) ==
                    Cardinality({k \in DOMAIN animatedCell.events :
                                    animatedCell.events[k] = [event |-> event, press |-> i]})
            IN  /\ Events("onDoublePress") = IF animatedCell.presses[i].isDoubleTap
                                             THEN 1 ELSE 0
                /\ InDoubleTap => Events("onPress") = 0
                /\ Events("onPress") <= 1
                /\ (~InDoubleTap /\ dateNow >= animatedCell.presses[i].time + 300) =>
                        Events("onPress") = 1

\* C23: in the weekData of calculateCalendarLayout, for the cells that
\* processHeatmapData made from the same start date, the cell at row d of a
\* week bucket carries a date whose day of week is d, and no date is carried
\* by two cells.
C23_FaithfulCalendar ==
    (op = "calculateCalendarLayout" /\ IsReturn(ret)) =>
        LET weekData == ret.value.weekData
            Slots == {slot \in (DOMAIN weekData) \X (1..7) : TRUE}
            DateAt(slot) == weekData[slot[1]][slot[2]].date
        IN  /\ \A slot \in Slots :
                   WeekdayOf(DateAt(slot)) = slot[2] - 1
            /\ \A slot \in Slots : \A other \in Slots :
                   slot # other => DateAt(slot) # DateAt(other)

\* C24: for a valid range with start <= end, whatever the start's time of
\* day, every cell that processHeatmapData returns for layout 'calendar' has
\* x >= 0 and 0 <= y <= 6, the first cell has x = 0, and no two cells share
\* their (x, y).
C24_CalendarCoordinates ==
    (op = "processHeatmapData" /\ IsReturn(ret) /\ ValidRange
        /\ LayoutOrDefault(layout) = "calendar") =>
        /\ \A i \in DOMAIN ret.value :
               ret.value[i].x >= 0 /\ ret.value[i].y \in 0..6
        /\ ret.value # <<>> => ret.value[1].x = 0
        /\ \A i \in DOMAIN ret.value : \A j \in DOMAIN ret.value :
               i # j => <<ret.value[i].x, ret.value[i].y>> # <<ret.value[j].x, ret.value[j].y>>

\* the observations of a list that are dated inside [startDate, endDate]
InsideRange(items) ==
    LET Inside(item) ==
            DaysFromCivil(item.date.y, item.date.m, item.date.d)
                \in UTCDays(getTime(startDate))..UTCDays(getTime(endDate))
    IN  SelectSeq(items, Inside)

\* C25: an observation list that has the same observations inside
\* [startDate, endDate] as the one processHeatmapData was given, and differs
\* from it only outside that range, gets the same cell list.
C25_OutOfRangeIgnored ==
    (op = "processHeatmapData" /\ IsReturn(ret) /\ ValidRange) =>
        \A other \in ObservationLists :
            InsideRange(other) = InsideRange(data) =>
                processHeatmapData(other, startDate, endDate, colorScheme, layout) = ret

\* C26: a call of calculateTimelineScrollLayout returns, whatever the cell
\* list and the chunkSize, zero and negative ones included.
C26_TimelineTerminates == <>(timeline.pc = "returned")

\* C27: when a call of trackMemoryUsage has returned, getTotalMemoryUsage()
\* is at most the maximum that is set.
C27_MemoryLimit ==
    op = "trackMemoryUsage" =>
        getTotalMemoryUsage(memoryOptimizer) <= memoryOptimizer.maxMemoryUsage

\* C28: for a palette with colors, whatever its levels (unset, or 1 and more:
\* fewer than, as many as or more than its colors), and a normalizedValue in
\* [0, 1], calculateColor reads the palette inside its colors only and
\* returns a color.
C28_PaletteIndexInBounds ==
    (/\ op = "calculateColor"
     /\ args.scheme.colors # <<>>
     /\ RatLeq(args.normalizedValue, RatOne)) =>
        LET levels == IF args.scheme.levels = Unset THEN Len(args.scheme.colors)
                      ELSE args.scheme.levels
            lowerIndex == FloorDiv(args.normalizedValue.n * (levels - 1),
                                   args.normalizedValue.d)
        IN  /\ IsReturn(ret)
            /\ ret.value # NoColor
            /\ (~args.isEmpty /\ args.normalizedValue.n > 0
                    /\ ~RatLeq(RatOne, args.normalizedValue)) =>
                   lowerIndex \in 0..(Len(args.scheme.colors) - 1)

\* C29: for positive sizes and a config with 0 < minZoom <= maxZoom,
\* calculateZoomBounds returns 0 < minZoom <= maxZoom with the configured
\* maxZoom, and calculateGestureTransform with those bounds returns a scale
\* between minZoom and maxZoom and a translation inside the pan bounds.
C29_ZoomBounds ==
    /\ op = "calculateZoomBounds" =>
           /\ ret.value.minZoom.n > 0
           /\ RatLeq(ret.value.minZoom, ret.value.maxZoom)
           /\ ret.value.maxZoom = args.config.maxZoom
    /\ op = "calculateGestureTransform" =>
           /\ RatLeq(GestureBounds.minZoom, ret.value.scale)
           /\ RatLeq(ret.value.scale, GestureBounds.maxZoom)
           /\ RatLeq(GestureBounds.minX, ret.value.translateX)
           /\ RatLeq(ret.value.translateX, GestureBounds.maxX)
           /\ RatLeq(GestureBounds.minY, ret.value.translateY)
           /\ RatLeq(ret.value.translateY, GestureBounds.maxY)

\* C30: when the loader rejects, the getRange or preloadAround call that
\* awaits it goes on (a getRange with its loop, a preloadAround to its return
\* or to its other loads), no chunk becomes marked loaded and the data stay
\* as they are; and a getRange that starts at an index whose chunk is not
\* marked loaded calls the loader for that chunk (again).
C30_LoadFailuresContained ==
    [][/\ \A caller \in DOMAIN lazyLoader.calls :
           \A chunkIndex \in DOMAIN lazyLoader.loaderCalls :
               LoaderSettles(caller, chunkIndex, FALSE) =>
                   /\ lazyLoader'.loadedChunks = lazyLoader.loadedChunks
                   /\ lazyLoader'.data = lazyLoader.data
                   /\ lazyLoader'.calls[caller].pc =
                          IF lazyLoader.calls[caller].fn = "getRange" THEN "resuming"
                          ELSE IF lazyLoader.calls[caller].pending = {chunkIndex}
                          THEN "idle" ELSE "loading"
       /\ \A caller \in DOMAIN lazyLoader.calls :
           \A startIndex \in 0..(Len(lazyLoader.data) - 1) :
               \A endIndex \in startIndex..(Len(lazyLoader.data) - 1) :
                   (/\ GetRange(caller, startIndex, endIndex)
                    /\ startIndex \div lazyLoader.chunkSize \notin lazyLoader.loadedChunks) =>
                       lazyLoader'.loaderCalls[startIndex \div lazyLoader.chunkSize] =
                           lazyLoader.loaderCalls[startIndex \div lazyLoader.chunkSize] + 1
      ]_vars

\* reached: the loader rejected chunk 0 and resolved nothing, no chunk is
\* marked loaded, every item is still null, the getRange that needed the chunk
\* has returned, without items, and the next one has called the loader again
C30_Witness ==
    /\ lazyLoader # NoLazyLoader
    /\ lazyLoader.rejected[0] = 1
    /\ \A c \in DOMAIN lazyLoader.resolved : lazyLoader.resolved[c] = 0
    /\ lazyLoader.loadedChunks = {}
    /\ \A k \in DOMAIN lazyLoader.data : lazyLoader.data[k] = 0
    /\ lazyLoader.calls[1] = [Idle EXCEPT !.fn = "getRange"]
    /\ lazyLoader.calls[2].pc = "loading"
    /\ lazyLoader.calls[2].fn = "getRange"
    /\ lazyLoader.loaderCalls[0] = 2

====
